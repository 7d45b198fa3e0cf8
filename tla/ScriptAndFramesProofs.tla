----------------------- MODULE ScriptAndFramesProofs ------------------------
(***************************************************************************)
(* Proofs about two components that have nothing to do with each other.    *)
(*                                                                         *)
(* ScriptTasks, for every set of kinds and any number of requests and      *)
(* loads: the inductive invariant, the two invariants it is made for, and  *)
(* the refinement of RequestLifecycle.                                     *)
(*                                                                         *)
(* Frames, for a text and a view of any height and any distances that are  *)
(* animated: what a frame leaves in the buffer and the texture. The layers *)
(* of a scroll are close to each other and the view is between two of      *)
(* them, so that no gap shows (CompositeWhole); what damage and            *)
(* translation leave alone is the same in both scenes (StillTrue), and an  *)
(* animation ends where its last scene is (EndTrue).                       *)
(***************************************************************************)
EXTENDS ScriptTasks, Frames, NaturalsInduction, WellFoundedInduction, TLAPS

-----------------------------------------------------------------------------
(* The inductive invariant, part by part.                                  *)

\* Nothing is known of an id that has not been given out.
FreshInv ==
    \A id \in Id : id >= nextId => /\ service[id] = "none" /\ fate[id] = "none"
                                   /\ id \notin tasks

\* The bridge is shut down before the host is destroyed, and not during a load.
PhaseInv ==
    /\ phase # "idle" => bridgeActive
    /\ bridgeActive => hostActive
    /\ ~bridgeActive => Held = {}

\* A session that takes requests owes nobody a failure, one that is broken has no
\* request left but those, and whoever asked a session is still waiting.
SessionInv ==
    \A id \in Id : /\ service[id] = "failing" => External(id) /\ ~session
                   /\ service[id] = "running" /\ External(id) =>
                         session /\ (~corrupt => id \in Held)

IInv == TypeOK /\ FreshInv /\ PhaseInv /\ SessionInv /\ TablesAgree /\ RecordsAreBacked

-----------------------------------------------------------------------------
(* Every action preserves it.                                              *)

\* The bounds are numbers.
LEMMA Bounds == MaxTasks \in Nat /\ MaxLoads \in Nat
  BY ScriptAssumption

\* The id that is next is nobody's.
LEMMA FreshId ==
  ASSUME IInv, nextId <= MaxTasks
  PROVE  /\ nextId \in Id
         /\ service[nextId] = "none" /\ fate[nextId] = "none" /\ nextId \notin tasks
         /\ nextId \notin callbacks /\ nextId \notin nativeCallbacks
  BY ScriptAssumption DEF IInv, TypeOK, FreshInv, TablesAgree, Held, Id

\* The invariant through each operation of the host and the bridge,
LEMMA StartStep ==
  ASSUME IInv, NEW caller \in {"scheme", "native"}, NEW k \in Kinds, Start(caller, k)
  PROVE  IInv'
<1> PICK id : id = nextId
  OBVIOUS
<1>0. /\ id \in Id /\ service[id] = "none" /\ fate[id] = "none" /\ id \notin tasks
      /\ id \notin callbacks /\ id \notin nativeCallbacks
  BY FreshId DEF Start
<1>1. /\ bridgeActive /\ hostActive /\ ~corrupt /\ Owed = {}
      /\ kind' = [kind EXCEPT ![id] = k] /\ nextId' = nextId + 1
      /\ UNCHANGED <<hostActive, bridgeActive, asked, phase, checkpoint, loads, corrupt>>
  BY DEF Start, SchemeRuns, Calm, loadVars
<1>a. /\ Record(id, caller) => Held' = Held \cup {id}
      /\ Held \subseteq Held'
  <2>1. Record(id, caller) => Held' = Held \cup {id}
    BY DEF Record, Held
  <2>2. UNCHANGED <<callbacks, nativeCallbacks>> => Held' = Held
    BY DEF Held
  <2> QED
    BY <2>1, <2>2 DEF Start
<1>2. /\ \A i \in Id : i # id => (External(i))' = External(i)
      /\ (External(id))' <=> k = "lsp-navigation"
  BY <1>0, <1>1 DEF External, IInv, TypeOK
<1>3. Break => /\ session' = FALSE
               /\ service' \in [Id -> {"none", "running", "failing", "gone"}]
               /\ \A i \in Id : \/ External(i) /\ service[i] = "running" /\ service'[i] = "failing"
                                \/ service'[i] = service[i] /\ (External(i) => service[i] # "running")
  BY DEF Break, IInv, TypeOK
<1>4. TypeOK' /\ FreshInv' /\ PhaseInv'
  <2>1. service' \in [Id -> {"none", "running", "failing", "gone"}] /\ session' \in BOOLEAN
    BY <1>0, <1>3 DEF Start, IInv, TypeOK
  <2>2. \A i \in Id : i # id /\ service[i] = "none" => service'[i] = "none"
    BY <1>0, <1>3 DEF Start, IInv, TypeOK
  <2>3. TypeOK'
    <3>1. nextId' \in 1..(MaxTasks + 1)
      BY <1>0, <1>1, Bounds DEF Start, IInv, TypeOK, Id
    <3>2. tasks' \subseteq Id /\ callbacks' \subseteq Id /\ nativeCallbacks' \subseteq Id
      BY <1>0 DEF Start, Record, IInv, TypeOK
    <3>3. fate' \in [Id -> Fates]
      BY <1>0 DEF Start, Record, IInv, TypeOK, Fates
    <3> QED
      BY <1>0, <1>1, <2>1, <3>1, <3>2, <3>3 DEF IInv, TypeOK
  <2>4. FreshInv'
    <3> SUFFICES ASSUME NEW i \in Id, i >= nextId'
                 PROVE  service'[i] = "none" /\ fate'[i] = "none" /\ i \notin tasks'
      BY DEF FreshInv
    <3>1. i # id /\ i >= nextId
      BY <1>0, <1>1 DEF Id
    <3> QED
      BY <1>0, <2>2, <3>1 DEF Start, Record, IInv, TypeOK, FreshInv
  <2>5. PhaseInv'
    BY <1>1 DEF IInv, PhaseInv, Held
  <2> QED
    BY <2>3, <2>4, <2>5
<1>5. SessionInv'
  <2>1. CASE UNCHANGED <<service, session>>
    BY <1>0, <1>1, <1>2, <1>a, <2>1 DEF IInv, TypeOK, SessionInv
  <2>2. CASE /\ service' = [service EXCEPT ![id] = "running"] /\ UNCHANGED session
             /\ k = "lsp-navigation" => session
             /\ Record(id, caller)
    BY <1>0, <1>1, <1>2, <1>a, <2>2 DEF IInv, TypeOK, SessionInv
  <2>3. CASE Break
    BY <1>0, <1>1, <1>2, <1>3, <2>3 DEF IInv, TypeOK, SessionInv
  <2> QED
    BY <2>1, <2>2, <2>3 DEF Start
<1>6. TablesAgree'
  <2>1. CASE /\ fate' = [fate EXCEPT ![id] = "rejected"]
             /\ UNCHANGED <<tasks, callbacks, nativeCallbacks>>
    BY <1>0, <1>1, <1>2, <2>1 DEF IInv, TypeOK, TablesAgree, Held
  <2>2. CASE Record(id, caller)
    <3>1. fate' = [fate EXCEPT ![id] = "open"] /\ tasks' = tasks \cup {id}
      BY <2>2 DEF Record
    <3>2. Held' = Held \cup {id}
      BY <2>2, <1>a
    <3> QED
      BY <1>0, <1>1, <1>2, <3>1, <3>2 DEF IInv, TypeOK, TablesAgree
  <2> QED
    BY <2>1, <2>2 DEF Start
<1>7. RecordsAreBacked'
  <2>1. CASE UNCHANGED <<service, session, tasks>>
    BY <1>0, <1>1, <1>2, <2>1 DEF IInv, TypeOK, RecordsAreBacked
  <2>2. CASE Break /\ UNCHANGED tasks
    BY <1>0, <1>1, <1>2, <1>3, <2>2 DEF IInv, TypeOK, RecordsAreBacked
  <2>3. CASE service' = [service EXCEPT ![id] = "running"] /\ UNCHANGED session /\ Record(id, caller)
    BY <1>0, <1>1, <1>2, <2>3 DEF Record, IInv, TypeOK, RecordsAreBacked
  <2>4. CASE k = "lsp-navigation" /\ Break /\ Record(id, caller)
    BY <1>0, <1>1, <1>2, <1>3, <2>4 DEF Record, IInv, TypeOK, RecordsAreBacked
  <2> QED
    BY <2>1, <2>2, <2>3, <2>4 DEF Start
<1> QED
  BY <1>4, <1>5, <1>6, <1>7 DEF IInv

\* What finish_task() leaves behind while the host is alive.
LEMMA FinishFacts ==
  ASSUME IInv, ~corrupt, NEW id \in Id, NEW f \in {"completed", "cancelled", "failed"},
         Finish(id, f)
  PROVE  /\ tasks' = IF hostActive THEN tasks \ {id} ELSE tasks
         /\ Held' = Held \ {id}
         /\ callbacks' \subseteq callbacks /\ nativeCallbacks' \subseteq nativeCallbacks
         /\ fate' = [fate EXCEPT ![id] = IF id \in Held THEN f ELSE @]
         /\ UNCHANGED <<nextId, hostActive, bridgeActive>>
  BY DEF Finish, IInv, TypeOK, PhaseInv, TablesAgree, Held

\* An end of a task, whatever else its service does to the other requests.
LEMMA FinishStep ==
  ASSUME IInv, ~corrupt, NEW id \in Id, NEW f \in {"completed", "cancelled", "failed"},
         Finish(id, f),
         service[id] \in {"running", "failing"}, service'[id] = "gone",
         service' \in [Id -> {"none", "running", "failing", "gone"}],
         \A i \in Id : i # id =>
            \/ service'[i] = service[i] /\ (session' = session \/ ~External(i) \/ service[i] # "running")
            \/ External(i) /\ service[i] = "running" /\ service'[i] = "failing" /\ ~session',
         session' \in {session, FALSE},
         asked' = asked, UNCHANGED <<kind, phase, checkpoint, loads>>, corrupt' \in BOOLEAN
  PROVE  IInv'
<1>1. /\ tasks' = IF hostActive THEN tasks \ {id} ELSE tasks
      /\ Held' = Held \ {id}
      /\ callbacks' \subseteq callbacks /\ nativeCallbacks' \subseteq nativeCallbacks
      /\ fate' = [fate EXCEPT ![id] = IF id \in Held THEN f ELSE @]
      /\ UNCHANGED <<nextId, hostActive, bridgeActive>>
  BY FinishFacts
<1>2. \A i \in Id : (External(i))' = External(i)
  BY DEF External
<1>3. TypeOK'
  BY <1>1 DEF IInv, TypeOK, Fates
<1>4. FreshInv'
  BY <1>1 DEF IInv, TypeOK, FreshInv, TablesAgree
<1>5. PhaseInv'
  BY <1>1 DEF IInv, PhaseInv
<1>6. SessionInv'
  BY <1>1, <1>2 DEF IInv, TypeOK, SessionInv
<1>7. TablesAgree'
  BY <1>1, <1>2 DEF IInv, TypeOK, TablesAgree, PhaseInv
<1>8. RecordsAreBacked'
  BY <1>1, <1>2 DEF IInv, TypeOK, RecordsAreBacked
<1> QED
  BY <1>3, <1>4, <1>5, <1>6, <1>7, <1>8 DEF IInv

\* A cancellation that ends a request of a session at once.
LEMMA CancelRunningStep ==
  ASSUME IInv, ~corrupt, NEW id \in Id, External(id), service[id] = "running",
         CancelRunning(id), UNCHANGED <<kind, phase, checkpoint, loads>>, corrupt' \in BOOLEAN
  PROVE  IInv' /\ Finish(id, "cancelled")
<1>1. Finish(id, "cancelled") /\ UNCHANGED asked
  BY DEF CancelRunning
<1>2. CASE service' = [service EXCEPT ![id] = "gone"] /\ UNCHANGED session
  BY <1>1, <1>2, FinishStep DEF IInv, TypeOK
<1>3. CASE /\ session' = FALSE
           /\ service' = [i \in Id |-> IF i = id THEN "gone"
                                       ELSE IF External(i) /\ service[i] = "running"
                                       THEN "failing" ELSE service[i]]
  <2>1. service'[id] = "gone" /\ service' \in [Id -> {"none", "running", "failing", "gone"}]
    BY <1>3 DEF IInv, TypeOK
  <2>2. \A i \in Id : i # id =>
            \/ service'[i] = service[i] /\ (~External(i) \/ service[i] # "running")
            \/ External(i) /\ service[i] = "running" /\ service'[i] = "failing" /\ ~session'
    BY <1>3
  <2> QED
    BY <1>1, <1>3, <2>1, <2>2, FinishStep
<1> QED
  BY <1>1, <1>2, <1>3 DEF CancelRunning

LEMMA CancelStep ==
  ASSUME IInv, NEW id \in Id, Cancel(id)
  PROVE  IInv'
<1>1. ~corrupt /\ UNCHANGED <<kind, phase, checkpoint, loads, corrupt>> /\ CancelRunning(id)
  BY DEF Cancel, SchemeRuns, Calm, loadVars
<1>2. CASE External(id) /\ service[id] = "running"
  BY <1>1, <1>2, CancelRunningStep DEF IInv, TypeOK
<1>3. CASE ~(External(id) /\ service[id] = "running")
  <2>1. /\ asked' = IF External(id) THEN asked ELSE [asked EXCEPT ![id] = TRUE]
        /\ UNCHANGED <<service, session, nextId, tasks, hostActive, callbacks, nativeCallbacks,
                       bridgeActive, fate>>
    BY <1>1, <1>3 DEF CancelRunning, hostVars, bridgeVars
  <2> QED
    BY <1>1, <2>1 DEF IInv, TypeOK, FreshInv, PhaseInv, SessionInv, TablesAgree,
                      RecordsAreBacked, Held, External
<1> QED
  BY <1>2, <1>3

LEMMA DeliverStep ==
  ASSUME IInv, NEW id \in Id,
         \/ DeliverOwed(id)
         \/ \E f \in {"completed", "cancelled", "failed"} : Deliver(id, f)
  PROVE  IInv'
<1>1. PICK f \in {"completed", "cancelled", "failed"} : Finish(id, f)
  BY DEF DeliverOwed, Deliver
<1>2. /\ ~corrupt /\ service' = [service EXCEPT ![id] = "gone"]
      /\ service[id] \in {"running", "failing"}
      /\ UNCHANGED <<kind, asked, session, phase, checkpoint, loads, corrupt>>
  BY DEF DeliverOwed, Deliver, Calm, Owed, loadVars
<1> QED
  BY <1>1, <1>2, FinishStep DEF IInv, TypeOK

\* through the failure of a session,
LEMMA SessionBreaksStep ==
  ASSUME IInv, SessionBreaks
  PROVE  IInv'
<1>1. /\ session' = FALSE
      /\ service' \in [Id -> {"none", "running", "failing", "gone"}]
      /\ \A i \in Id : \/ External(i) /\ service[i] = "running" /\ service'[i] = "failing"
                       \/ service'[i] = service[i] /\ (External(i) => service[i] # "running")
  BY DEF SessionBreaks, Break, IInv, TypeOK
<1>2. UNCHANGED <<nextId, tasks, hostActive, callbacks, nativeCallbacks, bridgeActive,
                  phase, checkpoint, loads, kind, asked, fate, corrupt>>
  BY DEF SessionBreaks, hostVars, bridgeVars, loadVars
<1>3. SessionInv' /\ RecordsAreBacked'
  BY <1>1, <1>2 DEF IInv, TypeOK, SessionInv, RecordsAreBacked, External
<1> QED
  BY <1>1, <1>2, <1>3 DEF IInv, TypeOK, FreshInv, PhaseInv, TablesAgree, Held, External

\* through a rollback, task by task, and the teardown.
LEMMA RollbackOneStep ==
  ASSUME IInv, NEW id \in Id, RollbackOne(id)
  PROVE  IInv'
<1>1. /\ ~corrupt /\ phase = "rollback" /\ id \in Held
      /\ UNCHANGED <<kind, phase, checkpoint, loads>>
  BY DEF RollbackOne, Calm, loadVars
<1>2. CASE External(id) /\ service[id] = "running"
  BY <1>1, <1>2, CancelRunningStep DEF RollbackOne
<1>3. CASE ~(External(id) /\ service[id] = "running")
  <2>1. /\ asked' = IF External(id) THEN asked ELSE [asked EXCEPT ![id] = TRUE]
        /\ callbacks' = callbacks \ {id}
        /\ nativeCallbacks' = nativeCallbacks \ {id}
        /\ fate' = [fate EXCEPT ![id] = "dropped"]
        /\ UNCHANGED <<nextId, tasks, hostActive, bridgeActive, service, session, corrupt>>
    BY <1>3 DEF RollbackOne, hostVars
  <2>2. Held' = Held \ {id} /\ fate[id] = "open"
    BY <1>1, <2>1 DEF Held, IInv, TablesAgree
  <2>3. TablesAgree'
    BY <1>1, <2>1, <2>2 DEF IInv, TypeOK, TablesAgree, External
  <2> QED
    <3>1. TypeOK' /\ FreshInv' /\ PhaseInv'
      BY <1>1, <2>1, <2>2 DEF IInv, TypeOK, FreshInv, PhaseInv, Fates
    <3>2. SessionInv'
      BY <1>1, <1>3, <2>1, <2>2 DEF IInv, TypeOK, SessionInv, External
    <3>3. RecordsAreBacked'
      BY <1>1, <2>1 DEF IInv, TypeOK, RecordsAreBacked, External
    <3> QED
      BY <2>3, <3>1, <3>2, <3>3 DEF IInv
<1> QED
  BY <1>2, <1>3

LEMMA ShutdownStep ==
  ASSUME IInv, Shutdown
  PROVE  IInv'
<1> PICK external : external = {i \in Held : External(i) /\ service[i] = "running"}
  OBVIOUS
<1>1. /\ bridgeActive /\ phase = "idle" /\ ~corrupt /\ Owed = {}
      /\ bridgeActive' = FALSE /\ callbacks' = {} /\ nativeCallbacks' = {}
      /\ fate' = [i \in Id |-> IF i \in Held THEN "dropped" ELSE fate[i]]
      /\ service' = [i \in Id |-> IF i \in external THEN "gone" ELSE service[i]]
      /\ asked' = [i \in Id |-> asked[i] \/ (i \in Held /\ ~External(i))]
      /\ tasks' = tasks \ external
      /\ session' \in (IF external = {} THEN {session} ELSE {session, FALSE})
      /\ UNCHANGED <<nextId, hostActive, kind, phase, checkpoint, loads, corrupt>>
  BY DEF Shutdown, Calm, loadVars
<1>2. TypeOK' /\ FreshInv' /\ PhaseInv'
  BY <1>1 DEF IInv, TypeOK, FreshInv, PhaseInv, Held, TablesAgree, Fates
<1>3. external # {} => session
  BY DEF IInv, TypeOK, SessionInv, Held
<1>4. TablesAgree'
  BY <1>1 DEF IInv, TypeOK, TablesAgree, Held
<1>5. SessionInv' /\ RecordsAreBacked'
  BY <1>1, <1>3 DEF IInv, TypeOK, SessionInv, RecordsAreBacked, External, Owed, Held
<1> QED
  BY <1>2, <1>4, <1>5 DEF IInv

LEMMA OtherStep ==
  ASSUME IInv,
         \/ BeginLoad \/ RollbackDone \/ DestroyHost \/ UNCHANGED vars
         \/ \E ok \in BOOLEAN : EndLoad(ok)
  PROVE  IInv'
<1> USE DEF hostVars, bridgeVars, loadVars, serviceVars, vars
<1>1. CASE BeginLoad \/ RollbackDone \/ (\E ok \in BOOLEAN : EndLoad(ok)) \/ UNCHANGED vars
  <2>1. UNCHANGED <<nextId, tasks, hostActive, callbacks, nativeCallbacks, bridgeActive,
                    kind, service, asked, session, fate, corrupt>>
    BY <1>1 DEF BeginLoad, RollbackDone, EndLoad
  <2>2. /\ phase' \in {"idle", "loading", "rollback"} /\ checkpoint' \subseteq Id
        /\ loads' \in 0..MaxLoads /\ (phase' # "idle" => bridgeActive)
    BY <1>1, ScriptAssumption DEF BeginLoad, RollbackDone, EndLoad, IInv, TypeOK, Held, PhaseInv
  <2> QED
    BY <2>1, <2>2 DEF IInv, TypeOK, FreshInv, PhaseInv, SessionInv, TablesAgree,
                      RecordsAreBacked, Held, External
<1>2. CASE DestroyHost
  BY <1>2 DEF DestroyHost, IInv, TypeOK, FreshInv, PhaseInv, SessionInv, TablesAgree,
              RecordsAreBacked, Held, External
<1> QED
  BY <1>1, <1>2

\* The inductive invariant: what the host, the bridge and the services know of each
\* task fits together after every call and every callback.
THEOREM ScriptInvariant == Spec => []IInv
<1>1. Init => IInv
  <2> SUFFICES ASSUME Init PROVE IInv
    OBVIOUS
  <2>1. TypeOK
    <3>1. nextId \in 1..(MaxTasks + 1) /\ loads \in 0..MaxLoads
      BY Bounds DEF Init
    <3>2. /\ kind \in [Id -> Kinds \cup {"none"}] /\ asked \in [Id -> BOOLEAN]
          /\ service \in [Id -> {"none", "running", "failing", "gone"}]
          /\ fate \in [Id -> Fates]
      BY DEF Init, Fates
    <3> QED
      BY <3>1, <3>2 DEF Init, TypeOK
  <2>2. FreshInv /\ PhaseInv /\ SessionInv /\ TablesAgree /\ RecordsAreBacked
    BY DEF Init, FreshInv, PhaseInv, SessionInv, TablesAgree, RecordsAreBacked, Held, External
  <2> QED
    BY <2>1, <2>2 DEF IInv
<1>2. IInv /\ [Next]_vars => IInv'
  BY StartStep, CancelStep, DeliverStep, SessionBreaksStep, RollbackOneStep, ShutdownStep,
     OtherStep DEF Next
<1> QED
  BY <1>1, <1>2, PTL DEF Spec

\* Type correctness of the task tables of both objects.
THEOREM ScriptTypeCorrect == Spec => []TypeOK
<1>1. IInv => TypeOK
  BY DEF IInv
<1> QED
  BY <1>1, ScriptInvariant, PTL

\* Host and bridge agree about which tasks are waiting, for any number of tasks.
THEOREM TablesInStep == Spec => []TablesAgree
<1>1. IInv => TablesAgree
  BY DEF IInv
<1> QED
  BY <1>1, ScriptInvariant, PTL

\* The only record that can be left behind is of a request whose session broke.
THEOREM NoOtherLeak == Spec => []RecordsAreBacked
<1>1. IInv => RecordsAreBacked
  BY DEF IInv
<1> QED
  BY <1>1, ScriptInvariant, PTL

-----------------------------------------------------------------------------
(* The refinement.                                                         *)

\* The end of a task is an abstract End, or nothing anybody sees.
LEMMA FinishRefines ==
  ASSUME IInv, ~corrupt, NEW id \in Id, NEW f \in {"completed", "cancelled", "failed"},
         Finish(id, f)
  PROVE  [Abstract!Next]_(Abstract!requestVars)
<1>1. /\ fate' = [fate EXCEPT ![id] = IF id \in Held THEN f ELSE @]
      /\ UNCHANGED bridgeActive
  BY FinishFacts
<1>2. CASE id \in Held
  <2>1. fate[id] = "open" /\ bridgeActive /\ fate \in [Id -> Fates]
    BY <1>2 DEF IInv, TypeOK, TablesAgree, PhaseInv
  <2>2. [i \in Id |-> Seen(fate'[i])]
           = [[i \in Id |-> Seen(fate[i])] EXCEPT ![id] = f]
    BY <1>1, <1>2, <2>1 DEF Seen
  <2>3. Abstract!End(id)
    BY <1>1, <2>1, <2>2 DEF Abstract!End, Abstract!Working, Abstract!Open, Seen
  <2> QED
    BY <2>3 DEF Abstract!Next
<1>3. CASE id \notin Held
  <2>1. UNCHANGED fate
    BY <1>1, <1>3 DEF IInv, TypeOK
  <2> QED
    BY <1>1, <2>1 DEF Abstract!requestVars
<1> QED
  BY <1>2, <1>3

\* Every step of host and bridge is one of RequestLifecycle or leaves it alone.
LEMMA ScriptStepRefines ==
  ASSUME IInv, [Next]_vars
  PROVE  [Abstract!Next]_(Abstract!requestVars)
<1> USE DEF hostVars, bridgeVars, loadVars, serviceVars
<1>1. ASSUME NEW caller, NEW k \in Kinds, Start(caller, k)
      PROVE  [Abstract!Next]_(Abstract!requestVars)
  <2> PICK id : id = nextId
    OBVIOUS
  <2>1. /\ id \in Id /\ fate[id] = "none" /\ bridgeActive /\ UNCHANGED bridgeActive
        /\ fate \in [Id -> Fates]
    BY <1>1, FreshId DEF Start, SchemeRuns, IInv, TypeOK
  <2>2. CASE fate' = [fate EXCEPT ![id] = "rejected"]
    <3>1. [i \in Id |-> Seen(fate'[i])] = [i \in Id |-> Seen(fate[i])]
      BY <2>1, <2>2 DEF Seen
    <3> QED
      BY <2>1, <3>1 DEF Abstract!requestVars
  <2>3. CASE fate' = [fate EXCEPT ![id] = "open"]
    <3>1. [i \in Id |-> Seen(fate'[i])]
             = [[i \in Id |-> Seen(fate[i])] EXCEPT ![id] = "open"]
      BY <2>1, <2>3 DEF Seen
    <3>2. Abstract!Accept(id)
      BY <2>1, <3>1 DEF Abstract!Accept, Abstract!Working, Seen
    <3> QED
      BY <2>1, <3>2 DEF Abstract!Next
  <2> QED
    BY <1>1, <2>2, <2>3 DEF Start, Record
<1>2. ASSUME NEW id \in Id, Cancel(id)
      PROVE  [Abstract!Next]_(Abstract!requestVars)
  <2>1. ~corrupt /\ (Finish(id, "cancelled") \/ UNCHANGED <<fate, bridgeActive>>)
    BY <1>2 DEF Cancel, SchemeRuns, Calm, CancelRunning
  <2> QED
    BY <2>1, FinishRefines DEF Abstract!requestVars
<1>3. ASSUME NEW id \in Id,
             \/ DeliverOwed(id)
             \/ \E f \in {"completed", "cancelled", "failed"} : Deliver(id, f)
      PROVE  [Abstract!Next]_(Abstract!requestVars)
  BY <1>3, FinishRefines DEF DeliverOwed, Deliver, Calm
<1>4. ASSUME NEW id \in Id, RollbackOne(id)
      PROVE  [Abstract!Next]_(Abstract!requestVars)
  <2>1. CASE External(id) /\ service[id] = "running"
    BY <1>4, <2>1, FinishRefines DEF RollbackOne, CancelRunning, Calm
  <2>2. CASE ~(External(id) /\ service[id] = "running")
    <3>1. /\ fate' = [fate EXCEPT ![id] = "dropped"] /\ UNCHANGED bridgeActive
          /\ fate[id] = "open" /\ bridgeActive /\ fate \in [Id -> Fates]
      BY <1>4, <2>2 DEF RollbackOne, IInv, TypeOK, TablesAgree, PhaseInv
    <3>2. [i \in Id |-> Seen(fate'[i])]
             = [[i \in Id |-> Seen(fate[i])] EXCEPT ![id] = "cancelled"]
      BY <3>1 DEF Seen
    <3>3. Abstract!End(id)
      BY <3>1, <3>2 DEF Abstract!End, Abstract!Working, Abstract!Open, Seen
    <3> QED
      BY <3>3 DEF Abstract!Next
  <2> QED
    BY <2>1, <2>2
<1>5. CASE Shutdown
  <2>1. /\ bridgeActive /\ ~bridgeActive'
        /\ fate' = [i \in Id |-> IF i \in Held THEN "dropped" ELSE fate[i]]
        /\ Held = {i \in Id : fate[i] = "open"} /\ fate \in [Id -> Fates]
    BY <1>5 DEF Shutdown, IInv, TypeOK, TablesAgree
  <2>2. \A i \in Id : /\ fate[i] = "open" => fate'[i] = "dropped"
                      /\ fate[i] # "open" => fate'[i] = fate[i]
    BY <2>1
  <2>3. [i \in Id |-> Seen(fate'[i])] = Abstract!EndAll("cancelled")
    BY <2>1, <2>2 DEF Abstract!EndAll, Abstract!Open, Seen
  <2>4. Abstract!Close
    BY <2>1, <2>3 DEF Abstract!Close
  <2> QED
    BY <2>4 DEF Abstract!Next
<1>6. CASE \/ SessionBreaks \/ BeginLoad \/ RollbackDone \/ DestroyHost \/ UNCHANGED vars
           \/ \E ok \in BOOLEAN : EndLoad(ok)
  <2>1. UNCHANGED <<fate, bridgeActive>>
    BY <1>6 DEF SessionBreaks, BeginLoad, RollbackDone, DestroyHost, EndLoad, vars
  <2> QED
    BY <2>1 DEF Abstract!requestVars
<1> QED
  BY <1>1, <1>2, <1>3, <1>4, <1>5, <1>6 DEF Next

\* Whoever asks for work through the host sees a request that ends once.
THEOREM ScriptRefinement == Spec => Implements
<1>1. Init => Abstract!Init
  BY DEF Init, Abstract!Init, Seen
<1>2. IInv /\ [Next]_vars => [Abstract!Next]_(Abstract!requestVars)
  BY ScriptStepRefines
<1> QED
  BY <1>1, <1>2, ScriptInvariant, PTL DEF Spec, Implements, Abstract!Spec

-----------------------------------------------------------------------------
(* Numbers.                                                                *)

\* Halves of half lines.
LEMMA Halves ==
  ASSUME NEW a \in Nat
  PROVE  /\ a \div 2 \in Nat /\ a % 2 \in 0..1
         /\ a = 2 * (a \div 2) + (a % 2)
  OBVIOUS

\* A half line is the upper or the lower half of a line.
LEMMA HalfIs ==
  ASSUME NEW a \in Nat, NEW r \in Nat, a \in (2 * r)..(2 * r + 1)
  PROVE  a \div 2 = r
  OBVIOUS

\* What the least and the greatest of some numbers are, where there are such.
LEMMA MinIs ==
  ASSUME NEW S, S \subseteq Int, NEW m \in S, \A x \in S : m <= x
  PROVE  Min(S) = m
  <1>1. \A x \in S : (\A y \in S : x <= y) => x = m
    OBVIOUS
  <1> QED BY <1>1 DEF Min

LEMMA MaxIs ==
  ASSUME NEW S, S \subseteq Int, NEW m \in S, \A x \in S : x <= m
  PROVE  Max(S) = m
  <1>1. \A x \in S : (\A y \in S : x >= y) => x = m
    OBVIOUS
  <1> QED BY <1>1 DEF Max

\* Numbers have a least one,
LEMMA LeastNumber ==
  ASSUME NEW S, S \subseteq Nat, S # {}
  PROVE  Min(S) \in S /\ \A x \in S : Min(S) <= x
  <1> DEFINE R == OpToRel(<, Nat)
  <1>1. IsWellFoundedOn(R, Nat)
    BY NatLessThanWellFounded, Zenon
  <1>2. \A x, y \in Nat : x < y => <<x, y>> \in R
    BY DEF OpToRel
  <1> HIDE DEF R
  <1>3. \E x \in S : \A y \in S : ~(<<y, x>> \in R)
    BY <1>1, WFMin, Zenon
  <1>4. PICK m \in S : \A y \in S : ~(<<y, m>> \in R)
    BY <1>3
  <1>5. \A x \in S : m <= x
    <2>1. \A x \in S : ~(x < m)
      BY <1>2, <1>4
    <2> QED BY <2>1
  <1>6. S \subseteq Int
    OBVIOUS
  <1>7. Min(S) = m
    BY <1>5, <1>6, MinIs
  <1> QED BY <1>5, <1>7

\* and, below a bound, a greatest one.
LEMMA GreatestNumber ==
  ASSUME NEW n \in Nat, NEW S, S \subseteq 0..n, S # {}
  PROVE  Max(S) \in S /\ \A x \in S : x <= Max(S)
  <1> DEFINE T == {b \in Nat : \A x \in S : x <= b}
  <1>1. T \subseteq Nat /\ n \in T
    OBVIOUS
  <1>2. Min(T) \in T /\ \A b \in T : Min(T) <= b
    BY <1>1, LeastNumber
  <1>3. PICK m : m = Min(T)
    OBVIOUS
  <1>4. m \in Nat /\ \A x \in S : x <= m
    BY <1>2, <1>3
  <1>5. ASSUME m \notin S
        PROVE  FALSE
    <2>1. \A x \in S : x < m
      BY <1>4, <1>5
    <2>2. m # 0 /\ m - 1 \in Nat /\ m - 1 < m
      <3>1. PICK x \in S : TRUE
        OBVIOUS
      <3>2. x \in Nat /\ x < m
        BY <2>1
      <3> QED BY <1>4, <3>2
    <2>3. \A x \in S : x <= m - 1
      BY <1>4, <2>1
    <2>4. m - 1 \in T
      BY <2>2, <2>3
    <2> QED BY <1>2, <1>3, <1>4, <2>2, <2>4
  <1>6. S \subseteq Int
    OBVIOUS
  <1>7. Max(S) = m
    BY <1>4, <1>5, <1>6, MaxIs
  <1> QED BY <1>4, <1>5, <1>7

-----------------------------------------------------------------------------
(* Scenes.                                                                 *)

\* A scene has at most one active row, and a caret only where it is to be seen.
IsScene(scene) ==
    /\ scene.top \in Tops /\ scene.active \subseteq Rows /\ scene.caret \in BOOLEAN
    /\ \A r, q \in scene.active : r = q
    /\ scene.caret => \E r \in scene.active : 2 * r - (scene.top % 2) \in 0..(Height - 2)

IsText(t) == t \in [version : [Line -> Int], caret : Line, top : Tops, reveal : BOOLEAN]

\* The bounds are numbers.
LEMMA FrameBounds ==
  /\ LastLine \in Nat /\ Height \in Nat /\ SmoothDistance \in Nat /\ GlideDistance \in Nat
  /\ Height >= SmoothDistance /\ Height >= 2
  /\ Tops \subseteq Nat /\ Rows \subseteq Nat /\ Line \subseteq Nat /\ Places \subseteq Nat
  BY FramesAssumption DEF Tops, Rows, Line, Places

\* A revealed caret is in the view.
LEMMA RevealedIs ==
  ASSUME NEW t, IsText(t)
  PROVE  /\ Revealed(t) \in Tops
         /\ t.reveal => Revealed(t) <= 2 * t.caret /\ 2 * t.caret + 2 <= Revealed(t) + Height
  <1>1. /\ t.caret \in 0..LastLine /\ t.top \in 0..(2 * LastLine) /\ t.reveal \in BOOLEAN
    BY DEF IsText, Line, Tops
  <1>2. CASE t.reveal /\ 2 * t.caret < t.top
    <2>1. Revealed(t) = 2 * t.caret
      BY <1>1, <1>2, FrameBounds DEF Revealed
    <2> QED BY <1>1, <2>1, FrameBounds DEF Tops
  <1>3. CASE t.reveal /\ ~(2 * t.caret < t.top) /\ 2 * t.caret + 2 > t.top + Height
    <2>1. Revealed(t) = 2 * t.caret + 2 - Height
      BY <1>1, <1>3, FrameBounds DEF Revealed
    <2> QED BY <1>1, <1>3, <2>1, FrameBounds DEF Tops
  <1>4. CASE ~(t.reveal /\ 2 * t.caret < t.top) /\ ~(t.reveal /\ 2 * t.caret + 2 > t.top + Height)
    <2>1. Revealed(t) = t.top
      BY <1>1, <1>4, FrameBounds DEF Revealed
    <2> QED BY <1>1, <1>4, <2>1, FrameBounds DEF Tops
  <1> QED BY <1>2, <1>3, <1>4

\* The scene of a text is one, and shows the caret where there is room for it.
LEMMA SceneIs ==
  ASSUME NEW t, IsText(t)
  PROVE  /\ IsScene(Scene(t)) /\ Scene(t).top = t.top
         /\ t.top <= 2 * t.caret /\ 2 * t.caret + 2 <= t.top + Height => Scene(t).caret
  <1> DEFINE s == Scene(t)
  <1>1. /\ t.caret \in Nat /\ t.top \in Tops /\ t.top \in Nat
    BY FrameBounds DEF IsText
  <1>2. /\ s.top = t.top /\ s.active = {r \in Rows : t.top \div 2 + r = t.caret}
        /\ s.caret = (t.top <= 2 * t.caret /\ 2 * t.caret + 2 <= t.top + Height)
    BY DEF Scene
  <1> HIDE DEF s
  <1>3. s.active \subseteq Rows /\ \A r \in s.active : t.top \div 2 + r = t.caret
    BY <1>2
  <1>4. PICK h \in Nat, p \in 0..1 : t.top \div 2 = h /\ t.top % 2 = p /\ t.top = 2 * h + p
    BY <1>1, Halves
  <1>5. \A r, q \in s.active : r = q
    <2>1. \A r \in s.active : r \in Nat /\ h + r = t.caret
      BY <1>3, <1>4, FrameBounds
    <2> HIDE <1>3
    <2> QED BY <1>1, <1>4, <2>1
  <1>6. ASSUME s.caret
        PROVE  \E r \in s.active : 2 * r - (s.top % 2) \in 0..(Height - 2)
    <2>1. t.top <= 2 * t.caret /\ 2 * t.caret + 2 <= t.top + Height
      BY <1>2, <1>6
    <2> DEFINE r == t.caret - h
    <2>2. r \in Nat /\ 2 * r - p \in 0..(Height - 2) /\ h + r = t.caret
      BY <1>1, <1>4, <2>1, FrameBounds
    <2>3. r <= Height \div 2
      BY <2>2, FrameBounds, <1>4
    <2>4. r \in Rows
      BY <2>2, <2>3, FrameBounds DEF Rows
    <2> HIDE DEF r
    <2> QED BY <1>2, <1>4, <2>2, <2>4
  <1>7. s.caret \in BOOLEAN
    BY <1>2
  <1> QED BY <1>1, <1>2, <1>3, <1>5, <1>6, <1>7 DEF IsScene, s

\* Where the active row and the caret of a scene are.
LEMMA CaretIs ==
  ASSUME NEW s, IsScene(s)
  PROVE  \/ ~s.caret /\ CaretAt(s) = {}
         \/ /\ s.caret /\ CaretAt(s) = ActiveAt(s)
            /\ \E c \in 0..(Height - 2) : CaretAt(s) = {c} /\ Max(CaretAt(s)) = c
  <1>1. CASE ~s.caret
    BY <1>1 DEF CaretAt
  <1>2. CASE s.caret
    <2>1. CaretAt(s) = ActiveAt(s)
      BY <1>2 DEF CaretAt
    <2>2. PICK r \in s.active : 2 * r - (s.top % 2) \in 0..(Height - 2)
      BY <1>2 DEF IsScene
    <2>3. s.active = {r}
      BY <2>2 DEF IsScene
    <2>4. ActiveAt(s) = {2 * r - (s.top % 2)}
      BY <2>3 DEF ActiveAt
    <2>5. Max({2 * r - (s.top % 2)}) = 2 * r - (s.top % 2)
      BY <2>2, MaxIs, FrameBounds
    <2> QED BY <1>2, <2>1, <2>2, <2>4, <2>5
  <1> QED BY <1>1, <1>2 DEF IsScene

-----------------------------------------------------------------------------
(* The layers of a scroll.                                                 *)

\* Keyframes have positions of their own, and each but the last has another close above it.
Keyframes(keys) ==
    /\ keys # {} /\ \A k \in keys : IsScene(k)
    /\ \A j, k \in keys : j.top = k.top => j = k
    /\ \A j, k \in keys : j.top < k.top =>
          \E i \in keys : j.top < i.top /\ i.top <= k.top /\ i.top - j.top <= SmoothDistance

\* The position is between two keyframes.
Within(keys, v) == v \in Nat /\ \E j, k \in keys : j.top <= v /\ v <= k.top

\* The positions of some keyframes, of which there are a least and a greatest.
LEMMA TopsAre ==
  ASSUME NEW keys, Keyframes(keys), NEW S, S \subseteq keys, S # {}
  PROVE  /\ \E k \in S : k.top = Min({j.top : j \in S}) /\ \A j \in S : k.top <= j.top
         /\ \E k \in S : k.top = Max({j.top : j \in S}) /\ \A j \in S : j.top <= k.top
  <1> DEFINE T == {j.top : j \in S}
  <1>1. \A j \in S : j.top \in 0..(2 * LastLine)
    BY DEF Keyframes, IsScene, Tops
  <1>2. T \subseteq 0..(2 * LastLine) /\ T # {} /\ \A j \in S : j.top \in T
    BY <1>1
  <1>3. \A m \in T : \E k \in S : k.top = m
    OBVIOUS
  <1> HIDE DEF T
  <1>4. T \subseteq Nat /\ 2 * LastLine \in Nat
    BY <1>2, FrameBounds
  <1>5. Min(T) \in T /\ \A x \in T : Min(T) <= x
    BY <1>2, <1>4, LeastNumber
  <1>6. Max(T) \in T /\ \A x \in T : x <= Max(T)
    BY <1>2, <1>4, GreatestNumber
  <1>7. \E k \in S : k.top = Min(T) /\ \A j \in S : k.top <= j.top
    BY <1>2, <1>3, <1>5
  <1>8. \E k \in S : k.top = Max(T) /\ \A j \in S : j.top <= k.top
    BY <1>2, <1>3, <1>6
  <1> QED BY <1>7, <1>8 DEF T

\* The layers around a position: the nearest below and above.
LEMMA LowerIs ==
  ASSUME NEW keys, Keyframes(keys), NEW v, Within(keys, v)
  PROVE  /\ Lower(keys, v) \in keys /\ Lower(keys, v).top <= v
         /\ \A j \in keys : j.top <= v => j.top <= Lower(keys, v).top
  <1> DEFINE under == {j \in keys : j.top <= v}
             m == IF under = {} THEN Min({j.top : j \in keys}) ELSE Max({j.top : j \in under})
  <1>1. under # {} /\ under \subseteq keys
    BY DEF Within
  <1>2. \E k \in under : k.top = Max({j.top : j \in under}) /\ \A j \in under : j.top <= k.top
    BY <1>1, TopsAre
  <1>3. m = Max({j.top : j \in under})
    BY <1>1
  <1>4. Lower(keys, v) = CHOOSE k \in keys : k.top = m
    BY DEF Lower
  <1>5. \A j \in keys : j.top <= v <=> j \in under
    OBVIOUS
  <1> HIDE DEF under, m
  <1>6. \E k \in keys : k.top = m
    BY <1>1, <1>2, <1>3
  <1>7. Lower(keys, v) \in keys /\ Lower(keys, v).top = m
    BY <1>4, <1>6
  <1>8. \E k \in under : k.top = m /\ \A j \in under : j.top <= k.top
    BY <1>2, <1>3
  <1> QED BY <1>1, <1>5, <1>7, <1>8

LEMMA UpperIs ==
  ASSUME NEW keys, Keyframes(keys), NEW v, Within(keys, v)
  PROVE  /\ Upper(keys, v) \in keys /\ v <= Upper(keys, v).top
         /\ \A j \in keys : v <= j.top => Upper(keys, v).top <= j.top
  <1> DEFINE over == {j \in keys : j.top >= v}
             m == IF over = {} THEN Max({j.top : j \in keys}) ELSE Min({j.top : j \in over})
  <1>0. \A k \in keys : k.top \in Nat
    BY FrameBounds DEF Keyframes, IsScene
  <1>1. over # {} /\ over \subseteq keys
    BY <1>0 DEF Within
  <1>2. \E k \in over : k.top = Min({j.top : j \in over}) /\ \A j \in over : k.top <= j.top
    BY <1>1, TopsAre
  <1>3. m = Min({j.top : j \in over})
    BY <1>1
  <1>4. Upper(keys, v) = CHOOSE k \in keys : k.top = m
    BY DEF Upper
  <1>5. \A j \in keys : v <= j.top <=> j \in over
    BY <1>0 DEF Within
  <1> HIDE DEF over, m
  <1>6. \E k \in keys : k.top = m
    BY <1>1, <1>2, <1>3
  <1>7. Upper(keys, v) \in keys /\ Upper(keys, v).top = m
    BY <1>4, <1>6
  <1>8. \E k \in over : k.top = m /\ \A j \in over : k.top <= j.top
    BY <1>2, <1>3
  <1> QED BY <1>1, <1>5, <1>7, <1>8

\* They are close, and one layer on a keyframe.
LEMMA LayersMeet ==
  ASSUME NEW keys, Keyframes(keys), NEW v, Within(keys, v)
  PROVE  /\ Upper(keys, v).top - Lower(keys, v).top <= SmoothDistance
         /\ \A k \in keys : k.top = v => Lower(keys, v) = k /\ Upper(keys, v) = k
  <1> DEFINE a == Lower(keys, v)
             b == Upper(keys, v)
  <1>1. /\ a \in keys /\ a.top <= v /\ \A j \in keys : j.top <= v => j.top <= a.top
        /\ b \in keys /\ v <= b.top /\ \A j \in keys : v <= j.top => b.top <= j.top
    BY LowerIs, UpperIs
  <1> HIDE DEF a, b
  <1>2. v \in Nat /\ \A k \in keys : k.top \in Nat
    BY FrameBounds DEF Within, Keyframes, IsScene
  <1>3. b.top - a.top <= SmoothDistance
    <2>1. CASE a.top = v
      BY <1>1, <1>2, <2>1, FrameBounds
    <2>2. CASE a.top # v
      <3>1. a.top < b.top
        BY <1>1, <1>2, <2>2
      <3>2. PICK i \in keys : a.top < i.top /\ i.top - a.top <= SmoothDistance
        BY <1>1, <3>1 DEF Keyframes
      <3>3. v <= i.top
        BY <1>1, <1>2, <3>2
      <3> QED BY <1>1, <1>2, <3>2, <3>3, FrameBounds
    <2> QED BY <2>1, <2>2
  <1>4. ASSUME NEW k \in keys, k.top = v
        PROVE  a = k /\ b = k
    <2>1. a.top = v /\ b.top = v
      BY <1>1, <1>2, <1>4
    <2> QED BY <1>1, <1>4, <2>1 DEF Keyframes
  <1> QED BY <1>3, <1>4 DEF a, b

\* A pixel of a layer, and which layer is seen where.
Lit(layer, v, y, strip) == IF strip = {} THEN RowAt(layer, v, y) \in layer.active ELSE Covers(strip, y)
Shows(layer, v, y, lit, caret) ==
    [text   |-> IF RowAt(layer, v, y) \notin Rows THEN Gap
                ELSE <<layer.cells[RowAt(layer, v, y)],
                       layer.cells[RowAt(layer, v, y)] # Blank /\ (v + y) % 2 = 1, lit>>,
     column |-> IF Covers(caret, y) THEN "caret" ELSE IF lit THEN "active" ELSE "plain"]
LayerAt(keys, v, y) == IF y >= 2 * (Upper(keys, v).top \div 2) - v THEN Upper(keys, v) ELSE Lower(keys, v)

\* The picture by its places.
LEMMA CompositeIs ==
  ASSUME NEW keys, NEW v, NEW strip, NEW caret
  PROVE  Composite(keys, v, strip, caret) =
           [y \in Places |-> Shows(LayerAt(keys, v, y), v, y, Lit(LayerAt(keys, v, y), v, y, strip), caret)]
  BY DEF Composite, Shows, LayerAt, Lit

\* Rows of close layers fill the view.
LEMMA RowsFill ==
  ASSUME NEW a \in Nat, NEW b \in Nat, NEW v \in Nat, a <= v, v <= b, b - a <= SmoothDistance,
         NEW y \in Places
  PROVE  /\ y >= 2 * (b \div 2) - v => (v + y) \div 2 - b \div 2 \in Rows
         /\ ~(y >= 2 * (b \div 2) - v) => (v + y) \div 2 - a \div 2 \in Rows
  <1>1. y \in Nat /\ y <= Height - 1 /\ Height \in Nat /\ b - a <= Height
    BY FrameBounds DEF Places
  <1> QED BY <1>1 DEF Rows

\* No gap shows between the layers.
LEMMA CompositeWhole ==
  ASSUME NEW keys, Keyframes(keys), NEW v, Within(keys, v), NEW strip, NEW caret, NEW y \in Places
  PROVE  Composite(keys, v, strip, caret)[y].text # Gap
  <1> DEFINE layer == LayerAt(keys, v, y)
             row == RowAt(layer, v, y)
             lit == Lit(layer, v, y, strip)
             z == layer.cells[row] # Blank /\ (v + y) % 2 = 1
  <1>1. /\ Lower(keys, v) \in keys /\ Lower(keys, v).top <= v /\ Upper(keys, v) \in keys
        /\ v <= Upper(keys, v).top /\ Upper(keys, v).top - Lower(keys, v).top <= SmoothDistance
    BY LowerIs, UpperIs, LayersMeet
  <1>2. v \in Nat /\ Lower(keys, v).top \in Nat /\ Upper(keys, v).top \in Nat
    BY <1>1, FrameBounds DEF Within, Keyframes, IsScene
  <1>3. row \in Rows
    BY <1>1, <1>2, RowsFill DEF LayerAt, RowAt
  <1>4. Composite(keys, v, strip, caret)[y] = Shows(layer, v, y, lit, caret)
    BY CompositeIs
  <1> HIDE DEF layer, lit
  <1>5. Composite(keys, v, strip, caret)[y].text = <<layer.cells[row], z, lit>>
    BY <1>3, <1>4 DEF Shows
  <1> HIDE DEF z
  <1> QED BY <1>5 DEF Gap

-----------------------------------------------------------------------------
(* How layers come and go.                                                 *)

\* A single scene is a layer.
LEMMA OneKeyframe ==
  ASSUME NEW s, IsScene(s)
  PROVE  Keyframes({s}) /\ Within({s}, s.top)
  <1>1. s.top \in Nat
    BY FrameBounds DEF IsScene
  <1> QED BY <1>1 DEF Keyframes, Within

\* A scene close to a keyframe becomes one, in the place of one at its position.
LEMMA InsertKeeps ==
  ASSUME NEW keys, Keyframes(keys), NEW s, IsScene(s), NEW l \in keys,
         s.top - l.top <= SmoothDistance, l.top - s.top <= SmoothDistance
  PROVE  /\ Keyframes(Insert(keys, s)) /\ s \in Insert(keys, s)
         /\ \A v : Within(keys, v) => Within(Insert(keys, s), v)
  <1> DEFINE new == Insert(keys, s)
             t == s.top
  <1>1. /\ s \in new /\ \A k \in new : (k \in keys /\ k.top # t) \/ k = s
        /\ \A k \in keys : k.top # t => k \in new
    BY DEF Insert
  <1>2. \A k \in keys \cup {s} : k.top \in Nat /\ IsScene(k)
    BY FrameBounds DEF Keyframes, IsScene
  <1> HIDE DEF new
  <1>3. \A k \in keys : \E i \in new : i.top = k.top
    BY <1>1
  <1>4. \A j, k \in new : j.top = k.top => j = k
    BY <1>1 DEF Keyframes
  <1>5. \A k \in new : k.top \in Nat
    BY <1>1, <1>2
  <1>6. ASSUME NEW j \in keys, NEW k \in keys, j.top < k.top
        PROVE  \E i \in new : j.top < i.top /\ i.top <= k.top /\ i.top - j.top <= SmoothDistance
    <2>1. PICK i \in keys : j.top < i.top /\ i.top <= k.top /\ i.top - j.top <= SmoothDistance
      BY <1>6 DEF Keyframes
    <2> QED BY <1>3, <2>1
  <1>7. ASSUME NEW j \in keys, j.top < t, \A k \in keys : k.top # t
        PROVE  \E i \in new : j.top < i.top /\ i.top <= t /\ i.top - j.top <= SmoothDistance
    <2>1. CASE l.top <= j.top
      BY <1>1, <1>2, <1>7, <2>1, FrameBounds
    <2>2. CASE ~(l.top <= j.top)
      <3>1. PICK i \in keys : j.top < i.top /\ i.top <= l.top /\ i.top - j.top <= SmoothDistance
        BY <1>2, <2>2 DEF Keyframes
      <3>2. CASE i.top <= t
        BY <1>1, <1>7, <3>1, <3>2
      <3>3. CASE ~(i.top <= t)
        BY <1>1, <1>2, <1>7, <3>1, <3>3, FrameBounds
      <3> QED BY <3>2, <3>3
    <2> QED BY <2>1, <2>2
  <1>8. ASSUME NEW k \in keys, t < k.top, \A j \in keys : j.top # t
        PROVE  \E i \in new : t < i.top /\ i.top <= k.top /\ i.top - t <= SmoothDistance
    <2>1. CASE l.top < t
      <3>1. Within(keys, t)
        BY <1>2, <1>8, <2>1 DEF Within
      <3> DEFINE a == Lower(keys, t)
      <3>2. a \in keys /\ a.top <= t /\ \A j \in keys : j.top <= t => j.top <= a.top
        BY <3>1, LowerIs
      <3> HIDE DEF a
      <3>3. a.top < k.top
        BY <1>2, <1>8, <3>2
      <3>4. PICK i \in keys : a.top < i.top /\ i.top <= k.top /\ i.top - a.top <= SmoothDistance
        BY <3>2, <3>3 DEF Keyframes
      <3>5. t < i.top /\ i \in new
        BY <1>1, <1>2, <1>8, <3>2, <3>4
      <3> QED BY <1>2, <3>2, <3>4, <3>5, FrameBounds
    <2>2. CASE ~(l.top < t)
      <3>1. l \in new /\ k \in new /\ t < l.top
        BY <1>1, <1>2, <1>8, <2>2
      <3>2. CASE l.top <= k.top
        BY <3>1, <3>2
      <3>3. CASE ~(l.top <= k.top)
        BY <1>2, <1>8, <3>1, <3>3, FrameBounds
      <3> QED BY <3>2, <3>3
    <2> QED BY <2>1, <2>2
  <1>9. ASSUME NEW j \in new, NEW k \in new, j.top < k.top
        PROVE  \E i \in new : j.top < i.top /\ i.top <= k.top /\ i.top - j.top <= SmoothDistance
    <2>1. CASE \E i \in keys : i.top = t
      <3>1. \A i \in new : \E o \in keys : o.top = i.top
        BY <1>1, <2>1
      <3> QED BY <1>6, <1>9, <3>1
    <2>2. CASE \A i \in keys : i.top # t
      <3>1. CASE j \in keys /\ k \in keys
        BY <1>6, <1>9, <3>1
      <3>2. CASE k = s /\ j # s
        BY <1>1, <1>7, <1>9, <2>2, <3>2
      <3>3. CASE j = s /\ k # s
        BY <1>1, <1>8, <1>9, <2>2, <3>3
      <3> QED BY <1>1, <1>5, <1>9, <3>1, <3>2, <3>3
    <2> QED BY <2>1, <2>2
  <1>10. \A k \in new : IsScene(k)
    BY <1>1, <1>2
  <1>11. ASSUME NEW v, Within(keys, v)
         PROVE  Within(new, v)
    BY <1>3, <1>11 DEF Within
  <1> QED BY <1>1, <1>4, <1>9, <1>10, <1>11 DEF Keyframes, new

\* What lies between two positions.
LEMMA BetweenIs ==
  ASSUME NEW a \in Int, NEW b \in Int
  PROVE  /\ a <= b => Between(a, b) = a..b /\ Min({a, b}) = a /\ Max({a, b}) = b
         /\ b <= a => Between(a, b) = b..a /\ Min({a, b}) = b /\ Max({a, b}) = a
  <1>1. CASE a <= b
    <2>1. Min({a, b}) = a /\ Max({a, b}) = b
      BY <1>1, MinIs, MaxIs
    <2>2. b <= a => a = b
      BY <1>1
    <2> QED BY <2>1, <2>2 DEF Between
  <1>2. CASE b <= a
    <2>1. Min({a, b}) = b /\ Max({a, b}) = a
      BY <1>2, MinIs, MaxIs
    <2>2. a <= b => a = b
      BY <1>2
    <2> QED BY <2>1, <2>2 DEF Between
  <1> QED BY <1>1, <1>2

\* The keyframes that are retained: those from lo to hi, and the nearest outside.
Retained(keys, k, lo, hi) ==
    \/ lo <= k.top /\ k.top <= hi
    \/ k.top < lo /\ \A j \in keys : j.top < lo => j.top <= k.top
    \/ hi < k.top /\ \A j \in keys : hi < j.top => k.top <= j.top

LEMMA RetainIs ==
  ASSUME NEW keys, Keyframes(keys), NEW at \in Nat, NEW target \in Nat, NEW lo \in Nat, NEW hi \in Nat,
         lo <= hi, Between(at, target) = lo..hi
  PROVE  \/ Retain(keys, at, target) = keys
         \/ \A k : k \in Retain(keys, at, target) <=> k \in keys /\ Retained(keys, k, lo, hi)
  <1> DEFINE range == Between(at, target)
             below == {j \in keys : j.top < Min(range)}
             above == {j \in keys : j.top > Max(range)}
             before == {k.top : k \in below}
             after == {k.top : k \in above}
             tops == range \cup (IF before = {} THEN {} ELSE {Max(before)})
                           \cup (IF after = {} THEN {} ELSE {Min(after)})
  <1>1. range = lo..hi /\ Min(range) = lo /\ Max(range) = hi
    <2>1. PICK S : S = lo..hi
      OBVIOUS
    <2>2. S \subseteq Int /\ lo \in S /\ hi \in S /\ \A x \in S : lo <= x /\ x <= hi
      BY <2>1
    <2>3. Min(S) = lo /\ Max(S) = hi
      BY <2>2, MinIs, MaxIs
    <2>4. range = S
      BY <2>1
    <2> HIDE DEF range
    <2> QED BY <2>1, <2>3, <2>4
  <1>2. Retain(keys, at, target) = keys \/ Retain(keys, at, target) = {k \in keys : k.top \in tops}
    BY DEF Retain
  <1>3. \A k \in keys : k.top \in Nat
    BY FrameBounds DEF Keyframes, IsScene
  <1>4. below = {} => before = {}
    OBVIOUS
  <1>5. below # {} => /\ before # {}
                      /\ \E k \in below : k.top = Max(before) /\ \A j \in below : j.top <= k.top
    BY TopsAre
  <1>6. above = {} => after = {}
    OBVIOUS
  <1>7. above # {} => /\ after # {}
                      /\ \E k \in above : k.top = Min(after) /\ \A j \in above : k.top <= j.top
    BY TopsAre
  <1>8. \A j \in keys : (j \in below <=> j.top < lo) /\ (j \in above <=> hi < j.top)
    BY <1>1, <1>3
  <1>9. below \subseteq keys /\ above \subseteq keys
    OBVIOUS
  <1> HIDE DEF range, below, above, before, after
  <1>10. ASSUME NEW k \in keys
         PROVE  k.top \in tops <=> Retained(keys, k, lo, hi)
    <2>1. CASE lo <= k.top /\ k.top <= hi
      BY <1>1, <1>3, <2>1 DEF Retained
    <2>2. CASE k.top < lo
      <3>1. k \in below /\ below # {} /\ k.top \notin range
        BY <1>1, <1>3, <1>8, <2>2
      <3>2. PICK i \in below : i.top = Max(before) /\ \A j \in below : j.top <= i.top
        BY <1>5, <3>1
      <3>3. after # {} => Min(after) # k.top
        BY <1>3, <1>4, <1>6, <1>7, <1>8, <1>9, <2>2
      <3>4. k.top \in tops <=> k.top = i.top
        BY <1>5, <3>1, <3>2, <3>3
      <3>5. Retained(keys, k, lo, hi) <=> \A j \in keys : j.top < lo => j.top <= k.top
        BY <1>3, <2>2 DEF Retained
      <3>6. k.top \in Nat /\ i.top \in Nat /\ i \in keys /\ i.top < lo
        BY <1>3, <1>8, <1>9, <3>2
      <3> QED BY <1>3, <1>8, <3>1, <3>2, <3>4, <3>5, <3>6
    <2>3. CASE hi < k.top
      <3>1. k \in above /\ above # {} /\ k.top \notin range
        BY <1>1, <1>3, <1>8, <2>3
      <3>2. PICK i \in above : i.top = Min(after) /\ \A j \in above : i.top <= j.top
        BY <1>7, <3>1
      <3>3. before # {} => Max(before) # k.top
        BY <1>3, <1>4, <1>5, <1>6, <1>8, <1>9, <2>3
      <3>4. k.top \in tops <=> k.top = i.top
        BY <1>7, <3>1, <3>2, <3>3
      <3>5. Retained(keys, k, lo, hi) <=> \A j \in keys : hi < j.top => k.top <= j.top
        BY <1>3, <2>3 DEF Retained
      <3>6. k.top \in Nat /\ i.top \in Nat /\ i \in keys /\ hi < i.top
        BY <1>3, <1>8, <1>9, <3>2
      <3> QED BY <1>3, <1>8, <3>1, <3>2, <3>4, <3>5, <3>6
    <2> QED BY <1>3, <2>1, <2>2, <2>3
  <1> QED BY <1>2, <1>10

\* What is retained is a row of close keyframes around the way to the target.
LEMMA RetainKeeps ==
  ASSUME NEW keys, Keyframes(keys), NEW at, Within(keys, at), NEW s \in keys
  PROVE  /\ Keyframes(Retain(keys, at, s.top)) /\ s \in Retain(keys, at, s.top)
         /\ \A v \in Between(at, s.top) : Within(Retain(keys, at, s.top), v)
  <1> DEFINE kept == Retain(keys, at, s.top)
  <1>1. at \in Nat /\ \A k \in keys : k.top \in Nat /\ IsScene(k)
    BY FrameBounds DEF Within, Keyframes, IsScene
  <1>2. PICK j \in keys, k \in keys : j.top <= at /\ at <= k.top
    BY DEF Within
  <1>3. PICK lo \in Nat, hi \in Nat : /\ lo <= hi /\ Between(at, s.top) = lo..hi
                                      /\ (lo = at /\ hi = s.top) \/ (lo = s.top /\ hi = at)
    <2>1. PICK x \in Nat : x = s.top
      BY <1>1
    <2>2. PICK a \in Nat : a = at
      BY <1>1
    <2>3. /\ a <= x => Between(a, x) = a..x
          /\ x <= a => Between(a, x) = x..a
      <3>1. a \in Int /\ x \in Int
        OBVIOUS
      <3> QED BY <3>1, BetweenIs
    <2> QED BY <2>1, <2>2, <2>3
  <1>4. \/ kept = keys
        \/ \A i : i \in kept <=> i \in keys /\ Retained(keys, i, lo, hi)
    BY <1>1, <1>3, RetainIs
  <1> HIDE DEF kept
  <1>5. CASE kept = keys
    <2>1. ASSUME NEW v \in lo..hi
          PROVE  Within(keys, v)
      BY <1>1, <1>2, <1>3 DEF Within
    <2> QED BY <1>3, <1>5, <2>1 DEF kept
  <1>6. CASE \A i : i \in kept <=> i \in keys /\ Retained(keys, i, lo, hi)
    <2>1. s \in kept
      BY <1>1, <1>3, <1>6 DEF Retained
    <2>2. ASSUME NEW m \in kept, NEW n \in kept, m.top < n.top
          PROVE  \E i \in kept : m.top < i.top /\ i.top <= n.top /\ i.top - m.top <= SmoothDistance
      <3>1. m \in keys /\ n \in keys /\ Retained(keys, m, lo, hi) /\ Retained(keys, n, lo, hi)
        BY <1>6
      <3>2. PICK i \in keys : m.top < i.top /\ i.top <= n.top /\ i.top - m.top <= SmoothDistance
        BY <2>2, <3>1 DEF Keyframes
      <3>3. i \in kept
        <4>1. CASE i.top < lo
          BY <1>1, <1>3, <3>1, <3>2, <4>1 DEF Retained
        <4>2. CASE lo <= i.top /\ i.top <= hi
          BY <1>6, <4>2 DEF Retained
        <4>3. CASE hi < i.top
          <5>1. n.top <= i.top
            BY <1>1, <1>3, <3>1, <3>2, <4>3 DEF Retained
          <5>2. i.top = n.top
            BY <1>1, <3>1, <3>2, <5>1
          <5>3. i = n
            BY <3>1, <5>2 DEF Keyframes
          <5> QED BY <5>3
        <4> QED BY <1>1, <4>1, <4>2, <4>3
      <3> QED BY <3>2, <3>3
    <2>3. kept \subseteq keys
      BY <1>6
    <2>4. Keyframes(kept)
      BY <2>1, <2>2, <2>3 DEF Keyframes
    <2>5. \E i \in kept : i.top <= lo
      <3>1. CASE lo = s.top
        BY <1>1, <2>1, <3>1
      <3>2. CASE lo = at /\ j.top = lo
        BY <1>3, <1>6, <3>2 DEF Retained
      <3>3. CASE lo = at /\ j.top # lo
        <4> DEFINE below == {i \in keys : i.top < lo}
        <4>1. j \in below /\ below \subseteq keys
          BY <1>1, <1>2, <3>3
        <4>2. PICK i \in below : \A o \in below : o.top <= i.top
          BY <4>1, TopsAre
        <4>3. i \in keys /\ i.top < lo /\ Retained(keys, i, lo, hi)
          BY <4>2 DEF Retained
        <4> QED BY <1>1, <1>6, <4>3
      <3> QED BY <1>3, <3>1, <3>2, <3>3
    <2>6. \E i \in kept : hi <= i.top
      <3>1. CASE hi = s.top
        BY <1>1, <2>1, <3>1
      <3>2. CASE hi = at /\ k.top = hi
        BY <1>3, <1>6, <3>2 DEF Retained
      <3>3. CASE hi = at /\ k.top # hi
        <4> DEFINE above == {i \in keys : hi < i.top}
        <4>1. k \in above /\ above \subseteq keys
          BY <1>1, <1>2, <3>3
        <4>2. PICK i \in above : \A o \in above : i.top <= o.top
          BY <4>1, TopsAre
        <4>3. i \in keys /\ hi < i.top /\ Retained(keys, i, lo, hi)
          BY <4>2 DEF Retained
        <4> QED BY <1>1, <1>6, <4>3
      <3> QED BY <1>3, <3>1, <3>2, <3>3
    <2>7. ASSUME NEW v \in lo..hi
          PROVE  Within(kept, v)
      <3>1. \A i \in kept : i.top \in Nat
        BY <1>1, <2>3
      <3> QED BY <2>5, <2>6, <3>1 DEF Within
    <2> QED BY <1>3, <2>1, <2>4, <2>7 DEF kept
  <1> QED BY <1>4, <1>5, <1>6

-----------------------------------------------------------------------------
(* Animations.                                                             *)

\* The inductive invariant: what the events say, the layers or the way of the animation
\* under way, and what is in the buffer.
TypeInv ==
    /\ precise \in BOOLEAN /\ IsText(text) /\ IsScene(last)
    /\ "direct" \in events => precise

IsScroll(m, scene) == \E keys : m = Scroll(keys) /\ Keyframes(keys) /\ scene \in keys
IsGlide(m, scene) ==
    \E from, to \in 0..(Height - 2) :
        m = Glide(from, to) /\ (~precise => scene.caret /\ CaretAt(scene) = {to})
IsMotion(m, scene) == m = Still \/ IsScroll(m, scene) \/ IsGlide(m, scene)

FramesInv == TypeInv /\ IsMotion(motion, last) /\ CanvasIsWhole

\* A motion of one kind is not of another.
LEMMA MotionIs ==
  ASSUME NEW m, NEW scene, IsMotion(m, scene)
  PROVE  \/ m = Still /\ m.kind = "still"
         \/ m.kind = "scroll" /\ m = Scroll(m.keys) /\ Keyframes(m.keys) /\ scene \in m.keys
         \/ /\ m.kind = "glide" /\ m.from \in 0..(Height - 2) /\ m.to \in 0..(Height - 2)
            /\ m = Glide(m.from, m.to) /\ (~precise => scene.caret /\ CaretAt(scene) = {m.to})
  <1>1. CASE m = Still
    BY <1>1 DEF Still
  <1>2. CASE IsScroll(m, scene)
    <2>1. PICK keys : m = Scroll(keys) /\ Keyframes(keys) /\ scene \in keys
      BY <1>2 DEF IsScroll
    <2>2. m.kind = "scroll" /\ m.keys = keys
      BY <2>1 DEF Scroll
    <2> QED BY <2>1, <2>2
  <1>3. CASE IsGlide(m, scene)
    <2>1. PICK from \in 0..(Height - 2), to \in 0..(Height - 2) :
              m = Glide(from, to) /\ (~precise => scene.caret /\ CaretAt(scene) = {to})
      BY <1>3 DEF IsGlide
    <2>2. m.kind = "glide" /\ m.from = from /\ m.to = to
      BY <2>1 DEF Glide
    <2> QED BY <2>1, <2>2
  <1> QED BY <1>1, <1>2, <1>3 DEF IsMotion

\* Where an animation is sampled.
LEMMA SamplesAre ==
  ASSUME FramesInv, NEW rest \in BOOLEAN, NEW s \in Samples(rest)
  PROVE  /\ motion.kind = "scroll" => Within(motion.keys, s) /\ (rest => s = last.top)
         /\ motion.kind = "glide" => s \in 0..(Height - 2) /\ (rest => s = motion.to)
  <1>1. last.top \in Nat /\ Height \in Nat
    BY FrameBounds DEF FramesInv, TypeInv, IsScene
  <1>2. CASE motion.kind = "scroll"
    <2> DEFINE keys == motion.keys
               T == {k.top : k \in keys}
    <2>1. Keyframes(keys) /\ last \in keys
      BY <1>2, MotionIs DEF FramesInv
    <2>2. PICK j \in keys, k \in keys : j.top = Min(T) /\ k.top = Max(T)
      <3>1. Keyframes(keys) /\ keys # {}
        BY <2>1 DEF Keyframes
      <3>2. /\ \E k \in keys : k.top = Min(T)
            /\ \E k \in keys : k.top = Max(T)
        BY <3>1, TopsAre
      <3> QED BY <3>2
    <2>3. j.top \in Nat /\ k.top \in Nat
      BY <2>1, FrameBounds DEF Keyframes, IsScene
    <2>4. s \in IF rest THEN {last.top} ELSE Hull(T)
      BY <1>2 DEF Samples
    <2> HIDE DEF keys, T
    <2>5. CASE rest
      <3>1. s = last.top
        BY <2>4, <2>5
      <3> QED BY <1>1, <1>2, <2>1, <3>1 DEF Within, keys
    <2>6. CASE ~rest
      <3>1. s \in Min(T)..Max(T)
        BY <2>4, <2>6 DEF Hull
      <3>2. s \in Nat /\ j.top <= s /\ s <= k.top
        BY <2>2, <2>3, <3>1
      <3> QED BY <1>2, <2>2, <2>6, <3>2 DEF Within, keys
    <2> QED BY <2>5, <2>6
  <1>3. CASE motion.kind = "glide"
    <2>1. motion.from \in 0..(Height - 2) /\ motion.to \in 0..(Height - 2)
      BY <1>3, MotionIs DEF FramesInv
    <2>2. PICK a \in 0..(Height - 2), b \in 0..(Height - 2) : a = motion.from /\ b = motion.to
      BY <2>1
    <2>3. s \in IF rest THEN {b} ELSE Between(a, b)
      BY <1>3, <2>2 DEF Samples
    <2>4. a \in Int /\ b \in Int
      OBVIOUS
    <2>5. /\ a <= b => Between(a, b) = a..b
          /\ b <= a => Between(a, b) = b..a
      BY <2>4, BetweenIs
    <2>6. CASE rest
      <3>1. s = b
        BY <2>3, <2>6
      <3> QED BY <1>3, <2>2, <3>1
    <2>7. CASE ~rest
      <3>1. s \in Between(a, b)
        BY <2>3, <2>7
      <3>2. s \in 0..(Height - 2)
        <4>1. CASE a <= b
          <5>1. s \in a..b
            BY <2>5, <3>1, <4>1
          <5> QED BY <1>1, <5>1
        <4>2. CASE b <= a
          <5>1. s \in b..a
            BY <2>5, <3>1, <4>2
          <5> QED BY <1>1, <5>1
        <4> QED BY <4>1, <4>2
      <3> QED BY <1>3, <2>7, <3>2
    <2> QED BY <2>6, <2>7
  <1> QED BY <1>2, <1>3

\* A scroll toward a scene has layers all the way.
IsWay(keys, at, scene) ==
    /\ Keyframes(keys) /\ scene \in keys /\ at \in Nat
    /\ \A v \in Between(at, scene.top) : Within(keys, v)

LEMMA ScrolledIs ==
  ASSUME FramesInv, NEW scene, IsScene(scene), NEW rest \in BOOLEAN, NEW s \in Samples(rest)
  PROVE  \/ Scrolled(scene, s) = Still
         \/ \E keys : Scrolled(scene, s) = Scroll(keys) /\ IsWay(keys, ScrollFrom(s), scene)
  <1>1. CASE Apart(scene.top, last.top) > SmoothDistance
    BY <1>1 DEF Scrolled
  <1>2. CASE ~(Apart(scene.top, last.top) > SmoothDistance)
    <2> DEFINE old == IF motion.kind = "scroll" THEN motion.keys ELSE {}
               one == Insert(old, last)
               two == Insert(one, scene)
               at == ScrollFrom(s)
    <2>1. Scrolled(scene, s) = Scroll(Retain(two, at, scene.top))
      BY <1>2 DEF Scrolled
    <2>2. IsScene(last) /\ last.top \in Nat /\ scene.top \in Nat
      BY FrameBounds DEF FramesInv, TypeInv, IsScene
    <2>3. last.top - scene.top <= SmoothDistance /\ scene.top - last.top <= SmoothDistance
      BY <1>2, <2>2, FrameBounds DEF Apart
    <2>4. Keyframes(one) /\ last \in one /\ Within(one, at)
      <3>1. CASE motion.kind = "scroll"
        <4>1. Keyframes(motion.keys) /\ last \in motion.keys
          BY <3>1, MotionIs DEF FramesInv
        <4>2. Within(motion.keys, s)
          BY <3>1, SamplesAre
        <4>3. last.top - last.top <= SmoothDistance
          BY <2>2, FrameBounds
        <4>4. one = Insert(motion.keys, last) /\ at = s
          BY <3>1 DEF ScrollFrom
        <4> HIDE DEF one, at
        <4> QED BY <2>2, <4>1, <4>2, <4>3, <4>4, InsertKeeps
      <3>2. CASE motion.kind # "scroll"
        <4>1. one = {last} /\ at = last.top
          BY <3>2 DEF ScrollFrom, Insert
        <4> HIDE DEF one, at
        <4> QED BY <2>2, <4>1, OneKeyframe
      <3> QED BY <3>1, <3>2
    <2> HIDE DEF old, one, at
    <2>5. Keyframes(two) /\ scene \in two /\ Within(two, at)
      BY <2>3, <2>4, InsertKeeps
    <2> HIDE DEF two
    <2>6. IsWay(Retain(two, at, scene.top), at, scene)
      BY <2>5, RetainKeeps DEF IsWay, Within
    <2> QED BY <2>1, <2>6 DEF at
  <1> QED BY <1>1, <1>2

\* A glide goes from where the caret was seen to where it is, both in the view.
LEMMA GlidedIs ==
  ASSUME FramesInv, NEW scene, IsScene(scene), scene.caret, last.caret, motion.kind # "scroll",
         NEW rest \in BOOLEAN, NEW s \in Samples(rest)
  PROVE  \/ Glided(scene, s) = Still
         \/ \E from, to \in 0..(Height - 2) : Glided(scene, s) = Glide(from, to) /\ CaretAt(scene) = {to}
  <1>1. PICK to \in 0..(Height - 2) : CaretAt(scene) = {to} /\ Max(CaretAt(scene)) = to
    BY CaretIs
  <1>2. PICK c \in 0..(Height - 2) : CaretAt(last) = {c} /\ Max(CaretAt(last)) = c
    BY CaretIs DEF FramesInv, TypeInv
  <1>3. PICK from \in 0..(Height - 2) : Max(GlideFrom(s)) = from
    <2>1. CASE motion.kind = "glide"
      <3>1. s \in 0..(Height - 2)
        BY <2>1, SamplesAre
      <3>2. Max({s}) = s
        BY <3>1, MaxIs
      <3> QED BY <2>1, <3>1, <3>2 DEF GlideFrom
    <2>2. CASE motion.kind # "glide"
      BY <1>2, <2>2 DEF GlideFrom
    <2> QED BY <2>1, <2>2
  <1> QED BY <1>1, <1>3 DEF Glided

\* What update_animation_targets() decides.
LEMMA AimedIs ==
  ASSUME FramesInv, NEW scene, IsScene(scene), NEW rest \in BOOLEAN, NEW s \in Samples(rest)
  PROVE  \/ Aimed(scene, s) = Still
         \/ \E keys : Aimed(scene, s) = Scroll(keys) /\ IsWay(keys, ScrollFrom(s), scene)
         \/ IsGlide(Aimed(scene, s), scene)
  <1> DEFINE aimed == Aimed(scene, s)
  <1>1. CASE events \cap {"resized", "renewed"} # {}
    BY <1>1 DEF Aimed
  <1> DEFINE New == events \cap {"resized", "renewed"} # {}
  <1>2. CASE ~New /\ "direct" \in events
    <2>1. precise
      BY <1>2 DEF FramesInv, TypeInv
    <2>2. motion.kind = "glide" => IsGlide(motion, scene)
      BY <2>1, MotionIs DEF FramesInv, IsGlide
    <2>3. aimed \in {motion, Still} /\ (aimed = motion => motion.kind = "glide" \/ motion = Still)
      BY <1>2 DEF Aimed
    <2> QED BY <2>2, <2>3
  <1>3. CASE ~New /\ "direct" \notin events /\ scene.top # last.top
    <2>1. aimed = Scrolled(scene, s)
      BY <1>3 DEF Aimed
    <2> HIDE DEF aimed
    <2> QED BY <2>1, ScrolledIs DEF aimed
  <1>4. CASE ~New /\ "direct" \notin events /\ scene.top = last.top /\ motion.kind = "scroll"
    <2> DEFINE new == Insert(motion.keys, scene)
    <2>1. aimed = Scroll(Retain(new, s, scene.top))
      BY <1>4 DEF Aimed
    <2>2. Keyframes(motion.keys) /\ last \in motion.keys /\ Within(motion.keys, s)
      BY <1>4, MotionIs, SamplesAre DEF FramesInv
    <2>3. scene.top - last.top <= SmoothDistance /\ last.top - scene.top <= SmoothDistance
      <3>1. scene.top \in Nat
        BY FrameBounds DEF IsScene
      <3> QED BY <1>4, <3>1, FrameBounds
    <2>4. Keyframes(new) /\ scene \in new /\ Within(new, s)
      BY <2>2, <2>3, InsertKeeps
    <2> HIDE DEF new
    <2>5. IsWay(Retain(new, s, scene.top), s, scene)
      BY <2>4, RetainKeeps DEF IsWay, Within
    <2>6. ScrollFrom(s) = s
      BY <1>4 DEF ScrollFrom
    <2> QED BY <2>1, <2>5, <2>6
  <1> DEFINE Quiet == ~New /\ "direct" \notin events /\ scene.top = last.top /\ motion.kind # "scroll"
  <1>5. CASE Quiet /\ ~scene.caret
    BY <1>5 DEF Aimed
  <1>6. CASE Quiet /\ scene.caret /\ last.caret /\ CaretAt(scene) # CaretAt(last)
    <2>1. aimed = Glided(scene, s)
      BY <1>6 DEF Aimed
    <2> HIDE DEF aimed
    <2> QED BY <1>6, <2>1, GlidedIs DEF aimed, IsGlide
  <1>7. CASE Quiet /\ scene.caret /\ ~(last.caret /\ CaretAt(scene) # CaretAt(last))
    <2>1. aimed = motion
      BY <1>7 DEF Aimed
    <2> HIDE DEF aimed
    <2>2. motion = Still \/ IsGlide(motion, scene)
      BY <1>7, MotionIs DEF FramesInv, IsGlide
    <2> QED BY <2>1, <2>2 DEF aimed
  <1> QED BY <1>1, <1>2, <1>3, <1>4, <1>5, <1>6, <1>7

\* The view is between where the animation is and its target, and the caret in it.
LEMMA OffsetIs ==
  ASSUME NEW scene, IsScene(scene), NEW at \in Nat
  PROVE  /\ scene.top - Offset(scene, at) \in Between(at, scene.top)
         /\ at = scene.top => Offset(scene, at) = 0
         /\ Offset(scene, at) \in Int
         /\ text.reveal /\ scene.caret =>
              \E c \in 0..(Height - 2) : CaretAt(scene) = {c} /\ c + Offset(scene, at) \in 0..(Height - 2)
  <1> DEFINE d == scene.top - at
             o == Offset(scene, at)
  <1>1. scene.top \in Nat /\ Height \in Nat /\ Height >= 2
    BY FrameBounds DEF IsScene
  <1>2. PICK t \in Nat : t = scene.top
    BY <1>1
  <1>3. at \in Int /\ t \in Int
    OBVIOUS
  <1>4. /\ at <= t => Between(at, scene.top) = at..t
        /\ t <= at => Between(at, scene.top) = t..at
    BY <1>2, <1>3, BetweenIs
  <1>5. CASE text.reveal /\ scene.caret
    <2>1. PICK c \in 0..(Height - 2) : CaretAt(scene) = {c} /\ Max(CaretAt(scene)) = c
      BY <1>5, CaretIs
    <2>2. o = Max({-c, Min({Height - 2 - c, d})})
      BY <1>5, <2>1 DEF Offset
    <2>3. PICK x \in Int : x = Height - 2 - c
      BY <1>1
    <2>4. PICK y \in Int : y = t - at /\ y = d
      BY <1>2
    <2>5. PICK z \in Int : z = -c
      OBVIOUS
    <2>6. PICK m \in Int : m = Min({x, y}) /\ (x <= y => m = x) /\ (y <= x => m = y)
      <3>1. /\ x <= y => Min({x, y}) = x
            /\ y <= x => Min({x, y}) = y
        BY BetweenIs
      <3>2. CASE x <= y
        BY <3>1, <3>2
      <3>3. CASE y <= x
        BY <3>1, <3>3
      <3> QED BY <3>2, <3>3
    <2>7. PICK n \in Int : n = Max({z, m}) /\ (z <= m => n = m) /\ (m <= z => n = z)
      <3>1. /\ z <= m => Max({z, m}) = m
            /\ m <= z => Max({z, m}) = z
        BY BetweenIs
      <3>2. CASE z <= m
        BY <3>1, <3>2
      <3>3. CASE m <= z
        BY <3>1, <3>3
      <3> QED BY <3>2, <3>3
    <2>8. o = n
      BY <2>2, <2>3, <2>4, <2>5, <2>6, <2>7
    <2> HIDE DEF o, d
    <2>9. (n <= 0 /\ n >= y) \/ (n >= 0 /\ n <= y)
      BY <1>1, <2>3, <2>5, <2>6, <2>7
    <2>10. c + n \in 0..(Height - 2)
      BY <1>1, <2>3, <2>5, <2>6, <2>7
    <2>11. t - n \in Nat /\ (at <= t => t - n \in at..t) /\ (t <= at => t - n \in t..at)
      BY <2>4, <2>9
    <2>12. scene.top - o \in Between(at, scene.top)
      <3>1. CASE at <= t
        BY <1>2, <1>4, <2>8, <2>11, <3>1
      <3>2. CASE t <= at
        BY <1>2, <1>4, <2>8, <2>11, <3>2
      <3> QED BY <1>3, <3>1, <3>2
    <2>13. at = scene.top => n = 0
      BY <1>2, <2>4, <2>9
    <2>14. o \in Int /\ (at = scene.top => o = 0) /\ c + o \in 0..(Height - 2)
      BY <2>8, <2>10, <2>13
    <2> QED BY <2>1, <2>12, <2>14 DEF o
  <1>6. CASE ~(text.reveal /\ scene.caret)
    <2>1. o = t - at
      BY <1>2, <1>6 DEF Offset
    <2> HIDE DEF o
    <2> QED BY <1>2, <1>4, <1>6, <2>1 DEF o
  <1> QED BY <1>5, <1>6

-----------------------------------------------------------------------------
(* What every frame leaves behind.                                         *)

\* The whole of a scene has no gap.
LEMMA PictureWhole ==
  ASSUME NEW scene, IsScene(scene), NEW y \in Places
  PROVE  Picture(scene)[y].text # Gap
  BY OneKeyframe, CompositeWhole DEF Picture

\* What CanvasIsWhole asks of a frame.
Whole(canvas, shown, caret, reveal) ==
    /\ shown = canvas
    /\ \A y \in Places : canvas[y].text # Gap
    /\ reveal => \E c \in caret : c \in Places /\ c + 1 \in Places

\* A caret that fits the view is seen whole.
LEMMA CaretFits ==
  ASSUME NEW c \in 0..(Height - 2)
  PROVE  c \in Places /\ c + 1 \in Places
  BY FrameBounds DEF Places

\* The scene that is painted: a caret that is to be seen is.
LEMMA NextScene ==
  ASSUME FramesInv, text' = [text EXCEPT !.top = Revealed(text)]
  PROVE  /\ IsText(text') /\ IsScene(Scene(text')) /\ text'.reveal = text.reveal
         /\ text.reveal => Scene(text').caret
  <1>1. IsText(text)
    BY DEF FramesInv, TypeInv
  <1>2. Revealed(text) \in Tops
    BY <1>1, RevealedIs
  <1>3. /\ text'.caret = text.caret /\ text'.reveal = text.reveal /\ text'.top = Revealed(text)
        /\ IsText(text')
    BY <1>1, <1>2 DEF IsText
  <1>4. text.reveal => text'.top <= 2 * text'.caret /\ 2 * text'.caret + 2 <= text'.top + Height
    BY <1>1, <1>3, RevealedIs
  <1> QED BY <1>3, <1>4, SceneIs

\* Damage and translation treat the texture as they treat the buffer.
LEMMA StillWhole ==
  ASSUME FramesInv, NEW scene, IsScene(scene), text.reveal => scene.caret, StillFrame(scene)
  PROVE  Whole(pixels', texture', presented'.caret, text.reveal)
  <1>1. texture = pixels /\ \A y \in Places : pixels[y].text # Gap
    BY DEF FramesInv, CanvasIsWhole
  <1>2. text.reveal => \E c \in presented'.caret : c \in Places /\ c + 1 \in Places
    <2>1. presented'.caret = CaretAt(scene)
      BY DEF StillFrame, Shown
    <2> QED BY <2>1, CaretIs, CaretFits
  <1>3. \A y \in Places : Picture(scene)[y].text # Gap
    BY PictureWhole
  <1>4. CASE Drawn(Picture(scene))
    BY <1>2, <1>3, <1>4 DEF Drawn, Whole
  <1>5. CASE PaintDamage(scene)
    <2>1. PICK rows, column, picture :
              /\ pixels' = Repainted(pixels, picture, rows, column) /\ picture = Picture(scene)
              /\ texture' = Repainted(texture, pixels', rows, column)
      BY <1>5 DEF PaintDamage
    <2>2. \A y \in Places : /\ pixels'[y].text = (IF y \in rows THEN picture ELSE pixels)[y].text
                            /\ pixels'[y].column = (IF y \in column THEN picture ELSE pixels)[y].column
      BY <2>1 DEF Repainted
    <2>3. \A y \in Places : pixels'[y].text # Gap
      BY <1>1, <1>3, <2>1, <2>2
    <2>4. texture' = pixels'
      <3>1. ASSUME NEW y \in Places
            PROVE  /\ (IF y \in rows THEN pixels' ELSE texture)[y].text
                         = (IF y \in rows THEN picture ELSE pixels)[y].text
                   /\ (IF y \in column THEN pixels' ELSE texture)[y].column
                         = (IF y \in column THEN picture ELSE pixels)[y].column
        BY <1>1, <2>2
      <3> QED BY <2>1, <3>1 DEF Repainted
    <2> QED BY <1>2, <2>3, <2>4 DEF Whole
  <1>6. CASE Translate(scene)
    <2>1. PICK shift, picture :
              /\ pixels' = Translated(pixels, picture, shift) /\ picture = Picture(scene)
              /\ texture' = Translated(texture, pixels', shift) \/ texture' = pixels'
      BY <1>6 DEF Translate
    <2>2. \A y \in Places : pixels'[y] = IF y - shift \in Places THEN pixels[y - shift] ELSE picture[y]
      BY <2>1 DEF Translated
    <2>3. \A y \in Places : pixels'[y].text # Gap
      BY <1>1, <1>3, <2>1, <2>2
    <2>4. texture' = pixels'
      <3>1. ASSUME NEW y \in Places
            PROVE  (IF y - shift \in Places THEN texture[y - shift] ELSE pixels'[y])
                      = (IF y - shift \in Places THEN pixels[y - shift] ELSE picture[y])
        BY <1>1, <2>2
      <3> QED BY <2>1, <3>1 DEF Translated
    <2> QED BY <1>2, <2>3, <2>4 DEF Whole
  <1> QED BY <1>4, <1>5, <1>6 DEF StillFrame

\* No motion is another kind of motion, or rest.
LEMMA MotionKinds ==
  ASSUME NEW keys, NEW from, NEW to
  PROVE  /\ Scroll(keys).kind = "scroll" /\ Scroll(keys).keys = keys /\ Scroll(keys) # Still
         /\ Glide(from, to).kind = "glide" /\ Glide(from, to) # Still
         /\ Glide(from, to).from = from /\ Glide(from, to).to = to
  <1>1. Still.kind = "still" /\ Scroll(keys).kind = "scroll" /\ Glide(from, to).kind = "glide"
    BY DEF Still, Scroll, Glide
  <1> QED BY <1>1 DEF Scroll, Glide

\* Nor does a frame that moves leave a gap, or the caret out of the view.
LEMMA AnimatedWhole ==
  ASSUME FramesInv, NEW scene, IsScene(scene), text.reveal => scene.caret,
         NEW rest \in BOOLEAN, NEW s \in Samples(rest),
         Aimed(scene, s) # Still, AnimatedFrame(scene, Aimed(scene, s), s)
  PROVE  Whole(pixels', texture', presented'.caret, text.reveal)
  <1> DEFINE aimed == Aimed(scene, s)
  <1>1. CASE \E keys : aimed = Scroll(keys) /\ IsWay(keys, ScrollFrom(s), scene)
    <2>1. PICK keys : aimed = Scroll(keys) /\ IsWay(keys, ScrollFrom(s), scene)
      BY <1>1
    <2>2. PICK at : at = ScrollFrom(s)
      OBVIOUS
    <2>3. /\ Keyframes(keys) /\ at \in Nat /\ \A v \in Between(at, scene.top) : Within(keys, v)
      BY <2>1, <2>2 DEF IsWay
    <2>4. aimed.kind = "scroll" /\ aimed.keys = keys
      BY <2>1, MotionKinds
    <2>5. PICK offset, strip, caret :
              /\ offset = Offset(scene, at) /\ caret = Moved(CaretAt(scene), offset)
              /\ Drawn(Composite(keys, scene.top - offset, strip, caret)) /\ Shown(TRUE, caret)
      BY <2>2, <2>4 DEF AnimatedFrame
    <2>6. Within(keys, scene.top - offset)
      BY <2>3, <2>5, OffsetIs
    <2>7. \A y \in Places : Composite(keys, scene.top - offset, strip, caret)[y].text # Gap
      BY <2>3, <2>6, CompositeWhole
    <2>8. ASSUME text.reveal
          PROVE  \E c \in caret : c \in Places /\ c + 1 \in Places
      <3>1. PICK c \in 0..(Height - 2) : CaretAt(scene) = {c} /\ c + offset \in 0..(Height - 2)
        BY <2>3, <2>5, <2>8, OffsetIs
      <3>2. c + offset \in caret
        BY <2>5, <3>1 DEF Moved
      <3> QED BY <3>1, <3>2, CaretFits
    <2> QED BY <2>5, <2>7, <2>8 DEF Drawn, Shown, Whole
  <1>2. CASE IsGlide(aimed, scene)
    <2>1. PICK from \in 0..(Height - 2), to \in 0..(Height - 2) : aimed = Glide(from, to)
      BY <1>2 DEF IsGlide
    <2>2. aimed.kind # "scroll" /\ aimed.from = from
      BY <2>1, MotionKinds
    <2>3. PICK caret : /\ caret = (IF motion.kind = "glide" THEN {s} ELSE {from})
                       /\ Drawn(Composite({scene}, scene.top, caret, caret)) /\ Shown(TRUE, caret)
      BY <2>2 DEF AnimatedFrame
    <2>4. \E c \in 0..(Height - 2) : c \in caret
      BY <2>3, SamplesAre
    <2>5. \A y \in Places : Composite({scene}, scene.top, caret, caret)[y].text # Gap
      BY OneKeyframe, CompositeWhole
    <2> QED BY <2>3, <2>4, <2>5, CaretFits DEF Drawn, Shown, Whole
  <1> QED BY <1>1, <1>2, AimedIs

-----------------------------------------------------------------------------
(* The inductive invariant.                                                *)

LEMMA FramesInitInv ==
  ASSUME FramesInit
  PROVE  FramesInv
  <1>1. IsText(text)
    BY FrameBounds DEF FramesInit, IsText, Line, Tops
  <1>2. IsScene(last)
    BY <1>1, SceneIs DEF FramesInit
  <1>3. TypeInv
    BY <1>1, <1>2, FramesAssumption DEF FramesInit, TypeInv
  <1>4. CanvasIsWhole
    BY <1>2, PictureWhole DEF FramesInit, CanvasIsWhole
  <1> QED BY <1>3, <1>4 DEF FramesInit, FramesInv, IsMotion

\* The animation under way is left alone by what leaves it and the last scene alone.
LEMMA MotionStays ==
  ASSUME IsMotion(motion, last), precise' = precise, motion' = motion, last' = last
  PROVE  IsMotion(motion, last)'
  BY DEF IsMotion, IsScroll, IsGlide, Keyframes, IsScene, CaretAt, ActiveAt, Still, Scroll, Glide

\* Events ask for a frame, and change nothing that was drawn.
LEMMA EventInv ==
  ASSUME FramesInv, NEW t, NEW extra, Event(t, extra), IsText(t), "direct" \in extra => precise
  PROVE  FramesInv'
  <1>1. /\ text' = t /\ events' = events \cup {"repaint"} \cup extra /\ precise' = precise
        /\ last' = last /\ motion' = motion /\ pixels' = pixels /\ texture' = texture
    BY DEF Event, raster
  <1>2. TypeInv'
    BY <1>1 DEF FramesInv, TypeInv, IsText, IsScene
  <1>3. CanvasIsWhole'
    BY <1>1 DEF FramesInv, CanvasIsWhole
  <1> QED BY <1>1, <1>2, <1>3, MotionStays DEF FramesInv

\* A paint: the scene, where the animation was sampled, and what it is now.
LEMMA PaintIs ==
  ASSUME NEW rest \in BOOLEAN, Paint(rest)
  PROVE  \E scene, s, aimed :
            /\ scene = Scene(text') /\ s \in Samples(rest) /\ aimed = Aimed(scene, s)
            /\ aimed = Still => StillFrame(scene)
            /\ aimed # Still => AnimatedFrame(scene, aimed, s)
            /\ motion' = (IF Ended(rest, aimed, scene) THEN Still ELSE aimed)
            /\ last' = scene
  <1>1. PICK scene \in {Scene(text')}, s \in Samples(rest) : \E aimed \in {Aimed(scene, s)} :
            /\ IF aimed = Still THEN StillFrame(scene)
               ELSE AnimatedFrame(scene, aimed, s) /\ UNCHANGED spare
            /\ motion' = PresentedMotion(Ended(rest, aimed, scene), aimed)
            /\ last' = scene
    BY DEF Paint
  <1>2. PICK aimed : /\ aimed = Aimed(scene, s)
                     /\ aimed = Still => StillFrame(scene)
                     /\ aimed # Still => AnimatedFrame(scene, aimed, s)
                     /\ motion' = (IF Ended(rest, aimed, scene) THEN Still ELSE aimed)
                     /\ last' = scene
    BY <1>1 DEF PresentedMotion
  <1>3. scene = Scene(text') /\ s \in Samples(rest)
    BY <1>1
  <1> QED BY <1>2, <1>3, Zenon

LEMMA PaintInv ==
  ASSUME FramesInv, NEW rest \in BOOLEAN, Paint(rest)
  PROVE  FramesInv'
  <1>1. PICK scene, s, aimed :
            /\ scene = Scene(text') /\ s \in Samples(rest) /\ aimed = Aimed(scene, s)
            /\ aimed = Still => StillFrame(scene)
            /\ aimed # Still => AnimatedFrame(scene, aimed, s)
            /\ motion' = Still \/ motion' = aimed
            /\ last' = scene
    BY PaintIs
  <1>2. text' = [text EXCEPT !.top = Revealed(text)] /\ events' = {} /\ precise' = precise
    BY DEF Paint
  <1>3. /\ IsText(text') /\ IsScene(scene) /\ text'.reveal = text.reveal
        /\ text.reveal => scene.caret
    BY <1>1, <1>2, NextScene
  <1>4. TypeInv'
    BY <1>1, <1>2, <1>3 DEF FramesInv, TypeInv, IsText, IsScene
  <1>5. Whole(pixels', texture', presented'.caret, text.reveal)
    BY <1>1, <1>3, StillWhole, AnimatedWhole
  <1>6. CanvasIsWhole'
    BY <1>3, <1>5 DEF CanvasIsWhole, Whole
  <1>7. IsMotion(motion', scene)
    <2>1. IsMotion(Still, scene)
      BY DEF IsMotion
    <2>2. IsMotion(Aimed(scene, s), scene)
      BY <1>1, <1>3, AimedIs DEF IsMotion, IsScroll, IsWay
    <2> QED BY <1>1, <2>1, <2>2
  <1>8. IsMotion(motion, last)'
    BY <1>1, <1>2, <1>7 DEF IsMotion, IsScroll, IsGlide, Keyframes, IsScene, CaretAt, ActiveAt, Still,
       Scroll, Glide
  <1> QED BY <1>4, <1>6, <1>8 DEF FramesInv

LEMMA FramesNextInv ==
  ASSUME FramesInv, [FramesNext]_frameVars
  PROVE  FramesInv'
  <1>1. IsText(text) /\ text.caret \in Line
    BY DEF FramesInv, TypeInv, IsText
  <1>2. CASE Type
    <2>1. IsText([text EXCEPT !.version[text.caret] = 1 - @, !.reveal = TRUE])
      <3>1. PICK l \in Line : l = text.caret
        BY <1>1
      <3>2. PICK v \in [Line -> Int] : v = [text.version EXCEPT ![l] = 1 - @]
        <4>1. text.version \in [Line -> Int]
          BY <1>1 DEF IsText
        <4>2. \A m \in Line : text.version[m] \in Int
          BY <4>1
        <4>3. PICK w : w = text.version
          OBVIOUS
        <4>4. w \in [Line -> Int] /\ 1 - w[l] \in Int
          BY <4>1, <4>2, <4>3, <3>1
        <4>5. [w EXCEPT ![l] = 1 - w[l]] \in [Line -> Int]
          BY <4>4
        <4> QED BY <4>3, <4>5
      <3>3. IsText([text EXCEPT !.version = v, !.reveal = TRUE])
        BY <1>1 DEF IsText
      <3> QED BY <3>1, <3>2, <3>3
    <2> QED BY <1>2, <2>1, EventInv DEF Type
  <1>3. CASE MoveCaret
    <2>1. PICK l \in Line : Event([text EXCEPT !.caret = l, !.reveal = TRUE], {})
      BY <1>3 DEF MoveCaret
    <2>2. IsText([text EXCEPT !.caret = l, !.reveal = TRUE])
      BY <1>1 DEF IsText
    <2> QED BY <2>1, <2>2, EventInv
  <1>4. CASE Restyle
    <2>1. PICK l \in Line : Event([text EXCEPT !.version[l] = 1 - @], {})
      BY <1>4 DEF Restyle
    <2>2. IsText([text EXCEPT !.version[l] = 1 - @])
      BY <1>1 DEF IsText
    <2> QED BY <2>1, <2>2, EventInv
  <1>5. CASE Wheel
    <2>1. PICK top \in Tops :
            Event([text EXCEPT !.top = top, !.reveal = FALSE], IF precise THEN {"direct"} ELSE {})
      BY <1>5 DEF Wheel
    <2>2. IsText([text EXCEPT !.top = top, !.reveal = FALSE])
      BY <1>1 DEF IsText
    <2>3. "direct" \in (IF precise THEN {"direct"} ELSE {}) => precise
      OBVIOUS
    <2> QED BY <2>1, <2>2, <2>3, EventInv
  <1>6. CASE Resize
    BY <1>1, <1>6, EventInv DEF Resize
  <1>7. CASE \E rest \in BOOLEAN : Paint(rest)
    BY <1>7, PaintInv
  <1>8. CASE UNCHANGED frameVars
    <2>1. /\ text' = text /\ events' = events /\ precise' = precise /\ presented' = presented
          /\ last' = last /\ motion' = motion /\ pixels' = pixels /\ texture' = texture
      BY <1>8 DEF frameVars, raster
    <2>2. TypeInv'
      BY <2>1 DEF FramesInv, TypeInv, IsText, IsScene
    <2>3. CanvasIsWhole'
      BY <2>1 DEF FramesInv, CanvasIsWhole
    <2> QED BY <2>1, <2>2, <2>3, MotionStays DEF FramesInv
  <1> QED BY <1>2, <1>3, <1>4, <1>5, <1>6, <1>7, <1>8 DEF FramesNext

\* The inductive invariant of the frames: the events of a build, the layers or the way of
\* the animation under way, and the canvas.
THEOREM FramesInvariant == FramesSpec => []FramesInv
  <1>1. FramesInit => FramesInv
    BY FramesInitInv
  <1>2. FramesInv /\ [FramesNext]_frameVars => FramesInv'
    BY FramesNextInv
  <1> QED BY <1>1, <1>2, PTL DEF FramesSpec

\* Whatever the frame, the texture holds the buffer, no gap shows between the layers of a
\* scroll, and a caret that is to be seen is in the view (main.cpp translate_texture;
\* frame_controller.cpp animation_presentation; scroll_timeline.cpp).
THEOREM CanvasWhole == FramesSpec => []CanvasIsWhole
  <1>1. FramesInv => CanvasIsWhole
    BY DEF FramesInv
  <1> QED BY <1>1, FramesInvariant, PTL

-----------------------------------------------------------------------------
(* The picture of a scene, place by place.                                 *)

RowIn(scene, y) == ((scene.top % 2) + y) \div 2

\* What is at a place of the picture depends on the parity of the position, and on the row.
PixelOf(scene, y) ==
    [text   |-> IF RowIn(scene, y) \notin Rows THEN Gap
                ELSE <<scene.cells[RowIn(scene, y)],
                       scene.cells[RowIn(scene, y)] # Blank /\ ((scene.top % 2) + y) % 2 = 1,
                       RowIn(scene, y) \in scene.active>>,
     column |-> IF RowIn(scene, y) \in CaretRows(scene) THEN "caret"
                ELSE IF RowIn(scene, y) \in scene.active THEN "active" ELSE "plain"]

\* The active row covers the places of the row.
LEMMA CoversIs ==
  ASSUME NEW scene, IsScene(scene), NEW y \in Places
  PROVE  Covers(ActiveAt(scene), y) <=> RowIn(scene, y) \in scene.active
  <1>1. scene.top \in Nat /\ y \in Nat /\ scene.active \subseteq Nat
    BY FrameBounds DEF IsScene
  <1>2. PICK p \in 0..1 : p = scene.top % 2
    BY <1>1, Halves
  <1>3. PICK q \in Nat : q = RowIn(scene, y) /\ p + y \in (2 * q)..(2 * q + 1)
    <2>1. p + y \in Nat
      BY <1>1
    <2>2. (p + y) \div 2 \in Nat /\ (p + y) \in (2 * ((p + y) \div 2))..(2 * ((p + y) \div 2) + 1)
      BY <2>1, Halves
    <2> QED BY <1>2, <2>2 DEF RowIn
  <1>4. ASSUME NEW r \in scene.active
        PROVE  y \in (2 * r - p)..((2 * r - p) + 1) <=> r = q
    <2>1. r \in Nat
      BY <1>1
    <2> QED BY <1>1, <1>3, <2>1
  <1>5. Covers(ActiveAt(scene), y) <=> \E r \in scene.active : y \in (2 * r - p)..((2 * r - p) + 1)
    BY <1>2 DEF Covers, ActiveAt
  <1> QED BY <1>3, <1>4, <1>5

LEMMA PictureIs ==
  ASSUME NEW scene, IsScene(scene)
  PROVE  Picture(scene) = [y \in Places |-> PixelOf(scene, y)]
  <1> DEFINE v == scene.top
             strip == ActiveAt(scene)
             caret == CaretAt(scene)
  <1>1. scene.top \in Nat
    BY FrameBounds DEF IsScene
  <1>2. Picture(scene) =
          [y \in Places |-> Shows(LayerAt({scene}, v, y), v, y, Lit(LayerAt({scene}, v, y), v, y, strip), caret)]
    BY CompositeIs DEF Picture
  <1>3. Lower({scene}, v) = scene /\ Upper({scene}, v) = scene
    BY OneKeyframe, LayersMeet
  <1>4. ASSUME NEW y \in Places
        PROVE  Shows(LayerAt({scene}, v, y), v, y, Lit(LayerAt({scene}, v, y), v, y, strip), caret)
                  = PixelOf(scene, y)
    <2>1. LayerAt({scene}, v, y) = scene
      BY <1>3 DEF LayerAt
    <2>2. RowAt(scene, v, y) = RowIn(scene, y) /\ ((v + y) % 2 = 1 <=> ((v % 2) + y) % 2 = 1)
      <3>1. y \in Nat
        BY FrameBounds
      <3>2. PICK x \in Nat : x = v
        BY <1>1
      <3>3. (x + y) \div 2 - x \div 2 = ((x % 2) + y) \div 2 /\ ((x + y) % 2 = 1 <=> ((x % 2) + y) % 2 = 1)
        BY <3>1
      <3> QED BY <3>2, <3>3 DEF RowAt, RowIn
    <2>3. Lit(scene, v, y, strip) <=> RowIn(scene, y) \in scene.active
      <3>1. CASE strip = {}
        BY <2>2, <3>1 DEF Lit
      <3>2. CASE strip # {}
        BY <3>2, CoversIs DEF Lit
      <3> QED BY <3>1, <3>2
    <2>4. Covers(caret, y) <=> RowIn(scene, y) \in CaretRows(scene)
      <3>1. CASE scene.caret
        BY <3>1, CoversIs DEF CaretAt, CaretRows
      <3>2. CASE ~scene.caret
        BY <3>2 DEF CaretAt, CaretRows, Covers
      <3> QED BY <3>1, <3>2
    <2>5. Lit(scene, v, y, strip) \in BOOLEAN
      <3>1. Covers(strip, y) \in BOOLEAN /\ (RowAt(scene, v, y) \in scene.active) \in BOOLEAN
        BY DEF Covers
      <3>2. CASE strip = {}
        BY <3>2 DEF Lit
      <3>3. CASE strip # {}
        BY <3>1, <3>3 DEF Lit
      <3> QED BY <3>2, <3>3
    <2> DEFINE lit == Lit(scene, v, y, strip)
               row == RowIn(scene, y)
    <2>6. lit = (row \in scene.active)
      BY <2>3, <2>5
    <2>7. Shows(scene, v, y, lit, caret) =
            [text   |-> IF row \notin Rows THEN Gap
                        ELSE <<scene.cells[row], scene.cells[row] # Blank /\ (v + y) % 2 = 1, lit>>,
             column |-> IF Covers(caret, y) THEN "caret" ELSE IF lit THEN "active" ELSE "plain"]
      BY <2>2 DEF Shows
    <2>8. (scene.cells[row] # Blank /\ (v + y) % 2 = 1)
            = (scene.cells[row] # Blank /\ ((v % 2) + y) % 2 = 1)
      BY <2>2
    <2> HIDE DEF lit, v, caret
    <2>9. Shows(scene, v, y, lit, caret) = PixelOf(scene, y)
      BY <2>4, <2>6, <2>7, <2>8 DEF PixelOf, v
    <2> QED BY <2>1, <2>9 DEF lit, v, caret
  <1> HIDE DEF v, strip, caret
  <1> QED BY <1>2, <1>4

\* Rows that look the same in both scenes look the same in their pictures, where each scene
\* has them.
LEMMA PixelsAgree ==
  ASSUME NEW scene, IsScene(scene), IsScene(last), NEW y \in Int, NEW z \in Int,
         (scene.top % 2) + y = (last.top % 2) + z,
         RowIn(scene, y) \in Rows => Signature(last, RowIn(scene, y)) = Signature(scene, RowIn(scene, y))
  PROVE  /\ PixelOf(scene, y).text = PixelOf(last, z).text
         /\ (RowIn(scene, y) \in CaretRows(scene) <=> RowIn(scene, y) \in CaretRows(last))
              => PixelOf(scene, y) = PixelOf(last, z)
  <1> DEFINE row == RowIn(scene, y)
  <1>1. RowIn(last, z) = row
    BY DEF RowIn
  <1>2. (((scene.top % 2) + y) % 2 = 1) = (((last.top % 2) + z) % 2 = 1)
    OBVIOUS
  <1>3. row \in Rows => scene.cells[row] = last.cells[row]
    BY DEF Signature
  <1>4. row \in scene.active <=> row \in last.active
    BY DEF Signature, IsScene
  <1> HIDE DEF row
  <1>5. PixelOf(scene, y).text = PixelOf(last, z).text
    BY <1>1, <1>2, <1>3, <1>4 DEF PixelOf, row
  <1>6. ASSUME row \in CaretRows(scene) <=> row \in CaretRows(last)
        PROVE  PixelOf(scene, y).column = PixelOf(last, z).column
    BY <1>1, <1>4, <1>6 DEF PixelOf, row
  <1>7. /\ PixelOf(scene, y) = [text |-> PixelOf(scene, y).text, column |-> PixelOf(scene, y).column]
        /\ PixelOf(last, z) = [text |-> PixelOf(last, z).text, column |-> PixelOf(last, z).column]
    BY DEF PixelOf
  <1> QED BY <1>5, <1>6, <1>7 DEF row

-----------------------------------------------------------------------------
(* Frames are true.                                                        *)

\* Row y of the places, seen from the top of a scene.
LEMMA RowAtIs ==
  ASSUME NEW scene, IsScene(scene), NEW y \in Places
  PROVE  RowAt(scene, scene.top, y) = RowIn(scene, y) /\ RowIn(scene, y) \in Nat
  <1>1. scene.top \in Nat /\ y \in Nat
    BY FrameBounds DEF IsScene
  <1>2. PICK x \in Nat : x = scene.top
    BY <1>1
  <1>3. (x + y) \div 2 - x \div 2 = ((x % 2) + y) \div 2 /\ ((x % 2) + y) \div 2 \in Nat
    BY <1>1
  <1> QED BY <1>2, <1>3 DEF RowAt, RowIn

\* What was damaged is painted, and the rest was right already.
LEMMA DamageTrue ==
  ASSUME FramesInv, NEW scene, IsScene(scene), pixels = Picture(last), PaintDamage(scene)
  PROVE  pixels' = Picture(scene)
  <1> DEFINE rows == RowDamage(scene)
             column == rows \cup CaretDamage(scene)
             old == Picture(last)
             new == Picture(scene)
  <1>1. IsScene(last)
    BY DEF FramesInv, TypeInv
  <1>2. pixels' = [y \in Places |-> [text   |-> (IF y \in rows THEN new ELSE old)[y].text,
                                     column |-> (IF y \in column THEN new ELSE old)[y].column]]
    BY DEF PaintDamage, Repainted
  <1>3. /\ new = [y \in Places |-> PixelOf(scene, y)]
        /\ \A y \in Places : new[y] = PixelOf(scene, y) /\ old[y] = PixelOf(last, y)
    BY <1>1, PictureIs
  <1> HIDE DEF rows, column, old, new
  <1>4. ASSUME NEW y \in Places
        PROVE  /\ (IF y \in rows THEN new ELSE old)[y].text = PixelOf(scene, y).text
               /\ (IF y \in column THEN new ELSE old)[y].column = PixelOf(scene, y).column
    <2> DEFINE row == RowIn(scene, y)
    <2>1. y \in Int /\ row \in Int /\ RowAt(scene, scene.top, y) = row
      BY RowAtIs, FrameBounds
    <2>2. CASE y \in rows
      <3>1. y \in column
        BY <2>2 DEF column
      <3> QED BY <1>3, <2>2, <3>1
    <2>3. CASE y \notin rows
      <3>1. ~Transformed(scene) /\ (row \in Rows => row \notin DirtyRows(scene))
        <4>1. ~Transformed(scene)
          BY <2>3 DEF rows, RowDamage
        <4>2. DirtyRows(scene) \cap ((row - 1)..(row + 1)) = {}
          BY <2>1, <2>3, <4>1 DEF rows, RowDamage
        <4>3. row \in (row - 1)..(row + 1)
          BY <2>1
        <4> HIDE DEF row
        <4> QED BY <4>1, <4>2, <4>3
      <3>2. (scene.top % 2) + y = (last.top % 2) + y
        BY <3>1 DEF Transformed
      <3>3. row \in Rows => Signature(last, row) = Signature(scene, row)
        BY <3>1 DEF DirtyRows
      <3>4. /\ PixelOf(scene, y).text = PixelOf(last, y).text
            /\ (row \in CaretRows(scene) <=> row \in CaretRows(last)) => PixelOf(scene, y) = PixelOf(last, y)
        BY <1>1, <2>1, <3>2, <3>3, PixelsAgree
      <3>5. CASE y \in column
        BY <1>3, <2>3, <3>4, <3>5
      <3>6. CASE y \notin column
        <4>1. CaretRows(last) # CaretRows(scene) => row \notin CaretRows(last) \cup CaretRows(scene)
          BY <2>1, <3>6 DEF column, CaretDamage
        <4>2. row \in CaretRows(scene) <=> row \in CaretRows(last)
          BY <4>1
        <4> QED BY <1>3, <2>3, <3>4, <3>6, <4>2
      <3> QED BY <3>5, <3>6
    <2> QED BY <2>2, <2>3
  <1>5. \A y \in Places : PixelOf(scene, y) = [text   |-> PixelOf(scene, y).text,
                                               column |-> PixelOf(scene, y).column]
    BY DEF PixelOf
  <1>6. pixels' = [y \in Places |-> PixelOf(scene, y)]
    <2>1. \A y \in Places :
             [text   |-> (IF y \in rows THEN new ELSE old)[y].text,
              column |-> (IF y \in column THEN new ELSE old)[y].column] = PixelOf(scene, y)
      BY <1>4, <1>5
    <2> QED BY <1>2, <2>1
  <1> QED BY <1>3, <1>6 DEF new

\* What moved by a half line is where the scene has it.
LEMMA TranslateTrue ==
  ASSUME FramesInv, NEW scene, IsScene(scene), pixels = Picture(last), CanTranslate(scene), Translate(scene)
  PROVE  pixels' = Picture(scene)
  <1> DEFINE shift == (last.top % 2) - (scene.top % 2)
             old == Picture(last)
             new == Picture(scene)
  <1>1. IsScene(last)
    BY DEF FramesInv, TypeInv
  <1>2. pixels' = [y \in Places |-> IF y - shift \in Places THEN old[y - shift] ELSE new[y]]
    BY DEF Translate, Translated
  <1>3. /\ new = [y \in Places |-> PixelOf(scene, y)]
        /\ \A y \in Places : new[y] = PixelOf(scene, y) /\ old[y] = PixelOf(last, y)
    BY <1>1, PictureIs
  <1> HIDE DEF old, new
  <1>4. scene.top % 2 \in Int /\ last.top % 2 \in Int
    <2>1. scene.top \in Nat /\ last.top \in Nat
      BY <1>1, FrameBounds DEF IsScene
    <2>2. \A a \in Nat : a % 2 \in Int
      OBVIOUS
    <2> QED BY <2>1, <2>2
  <1>5. ASSUME NEW y \in Places, y - shift \in Places
        PROVE  PixelOf(last, y - shift) = PixelOf(scene, y)
    <2>1. y \in Int /\ y - shift \in Int /\ (scene.top % 2) + y = (last.top % 2) + (y - shift)
      BY <1>4, FrameBounds
    <2>2. RowIn(scene, y) \in Rows => Signature(last, RowIn(scene, y)) = Signature(scene, RowIn(scene, y))
      BY DEF CanTranslate, DirtyRows
    <2>3. CaretRows(last) = CaretRows(scene)
      BY DEF CanTranslate
    <2> HIDE DEF shift
    <2> QED BY <1>1, <2>1, <2>2, <2>3, PixelsAgree
  <1> HIDE DEF shift
  <1>6. \A y \in Places : (IF y - shift \in Places THEN old[y - shift] ELSE new[y]) = PixelOf(scene, y)
    BY <1>3, <1>5
  <1>7. pixels' = [y \in Places |-> PixelOf(scene, y)]
    BY <1>2, <1>6
  <1> QED BY <1>3, <1>7 DEF new

\* A frame that does not move leaves the buffer right.
LEMMA StillTrue ==
  ASSUME FramesInv, NEW scene, IsScene(scene), pixels = Picture(last), StillFrame(scene)
  PROVE  pixels' = Picture(scene)
  <1>1. CASE Drawn(Picture(scene))
    BY <1>1 DEF Drawn
  <1>2. CASE PaintDamage(scene)
    BY <1>2, DamageTrue
  <1>3. CASE CanTranslate(scene) /\ Translate(scene)
    BY <1>3, TranslateTrue
  <1> QED BY <1>1, <1>2, <1>3 DEF StillFrame

\* A scroll that is at its target shows its scene alone.
LEMMA ScrollEnds ==
  ASSUME NEW keys, NEW scene, IsScene(scene), IsWay(keys, scene.top, scene)
  PROVE  Composite(keys, scene.top, ActiveAt(scene), CaretAt(scene)) = Picture(scene)
  <1> DEFINE v == scene.top
  <1>1. Keyframes(keys) /\ scene \in keys /\ Within(keys, v)
    <2>1. PICK x \in Nat : x = scene.top
      BY FrameBounds DEF IsScene
    <2>2. x \in Between(x, x)
      <3>1. Between(x, x) = x..x
        <4>1. x \in Int /\ x <= x
          OBVIOUS
        <4> QED BY <4>1, BetweenIs
      <3> QED BY <3>1
    <2> QED BY <2>1, <2>2 DEF IsWay
  <1>2. Lower(keys, v) = scene /\ Upper(keys, v) = scene
    BY <1>1, LayersMeet
  <1>3. Lower({scene}, v) = scene /\ Upper({scene}, v) = scene
    BY OneKeyframe, LayersMeet
  <1>4. \A y \in Places : LayerAt(keys, v, y) = scene /\ LayerAt({scene}, v, y) = scene
    BY <1>2, <1>3 DEF LayerAt
  <1> DEFINE strip == ActiveAt(scene)
             caret == CaretAt(scene)
  <1>5. /\ Composite(keys, v, strip, caret) =
            [y \in Places |-> Shows(LayerAt(keys, v, y), v, y, Lit(LayerAt(keys, v, y), v, y, strip), caret)]
        /\ Picture(scene) =
            [y \in Places |-> Shows(LayerAt({scene}, v, y), v, y, Lit(LayerAt({scene}, v, y), v, y, strip), caret)]
    BY CompositeIs DEF Picture
  <1> HIDE DEF v, strip, caret
  <1>6. \A y \in Places :
          Shows(LayerAt(keys, v, y), v, y, Lit(LayerAt(keys, v, y), v, y, strip), caret)
            = Shows(LayerAt({scene}, v, y), v, y, Lit(LayerAt({scene}, v, y), v, y, strip), caret)
    BY <1>4
  <1> QED BY <1>5, <1>6 DEF v, strip, caret

\* A frame that ends its animation leaves the buffer right, whatever was there.
LEMMA EndTrue ==
  ASSUME FramesInv, NEW scene, IsScene(scene), NEW s \in Samples(TRUE), Ended(TRUE, Aimed(scene, s), scene),
         Aimed(scene, s) # Still, AnimatedFrame(scene, Aimed(scene, s), s),
         precise => motion.kind = "scroll"
  PROVE  pixels' = Picture(scene)
  <1> DEFINE aimed == Aimed(scene, s)
  <1>1. CASE \E keys : aimed = Scroll(keys) /\ IsWay(keys, ScrollFrom(s), scene)
    <2>1. PICK keys : aimed = Scroll(keys) /\ IsWay(keys, ScrollFrom(s), scene)
      BY <1>1
    <2>2. aimed.kind = "scroll" /\ aimed.keys = keys
      BY <2>1, MotionKinds
    <2>3. motion.kind = "scroll" /\ scene.top = last.top
      BY <2>2 DEF Ended
    <2>4. ScrollFrom(s) = scene.top
      BY <2>3, SamplesAre DEF ScrollFrom
    <2>5. PICK at \in Nat : at = scene.top
      BY FrameBounds DEF IsScene
    <2>6. Offset(scene, at) = 0
      BY <2>5, OffsetIs
    <2>7. PICK offset : /\ offset = Offset(scene, at)
                        /\ Drawn(Composite(keys, scene.top - offset, Moved(ActiveAt(scene), offset),
                                           Moved(CaretAt(scene), offset)))
      BY <2>2, <2>4, <2>5 DEF AnimatedFrame
    <2>8. scene.top - 0 = scene.top /\ Moved(ActiveAt(scene), 0) = ActiveAt(scene)
          /\ Moved(CaretAt(scene), 0) = CaretAt(scene)
      <3>1. ActiveAt(scene) \subseteq Int
        <4>1. \A r \in scene.active : 2 * r - (scene.top % 2) \in Int
          <5>1. scene.top \in Nat /\ \A r \in scene.active : r \in Nat
            BY FrameBounds DEF IsScene
          <5>2. \A a, r \in Nat : 2 * r - (a % 2) \in Int
            OBVIOUS
          <5> QED BY <5>1, <5>2
        <4> QED BY <4>1 DEF ActiveAt
      <3>2. CaretAt(scene) \subseteq Int
        BY <3>1 DEF CaretAt
      <3>3. ASSUME NEW A, A \subseteq Int
            PROVE  Moved(A, 0) = A
        <4>1. \A a \in A : a + 0 = a
          BY <3>3
        <4> QED BY <4>1 DEF Moved
      <3> QED BY <2>5, <3>1, <3>2, <3>3
    <2>9. pixels' = Composite(keys, scene.top, ActiveAt(scene), CaretAt(scene))
      BY <2>6, <2>7, <2>8 DEF Drawn
    <2> QED BY <2>1, <2>4, <2>9, ScrollEnds
  <1>2. CASE IsGlide(aimed, scene)
    <2>1. PICK from \in 0..(Height - 2), to \in 0..(Height - 2) :
              aimed = Glide(from, to) /\ (~precise => scene.caret /\ CaretAt(scene) = {to})
      BY <1>2 DEF IsGlide
    <2>2. aimed.kind = "glide" /\ aimed.to = to
      BY <2>1, MotionKinds
    <2>3. motion.kind = "glide" /\ aimed = motion
      BY <2>2 DEF Ended
    <2>4. ~precise /\ s = to
      BY <2>2, <2>3, SamplesAre
    <2>5. Drawn(Composite({scene}, scene.top, {s}, {s}))
      BY <2>2, <2>3 DEF AnimatedFrame
    <2>6. {s} = CaretAt(scene) /\ CaretAt(scene) = ActiveAt(scene)
      BY <2>1, <2>4 DEF CaretAt
    <2> QED BY <2>5, <2>6 DEF Drawn, Picture
  <1> QED BY <1>1, <1>2, AimedIs

\* A frame that does not move and follows a buffer that was right leaves it right, and so
\* does one that ends an animation: damage, translation, keyframes and the held view miss no
\* pixel (scene_damage.cpp, skia_presenter.cpp, frame_controller.cpp).
THEOREM FramesTrue == FramesSpec => FramesAreTrue
  <1> DEFINE A == /\ events' = {}
                  /\ \/ ~presented'.animated /\ pixels = Picture(last)
                     \/ presented'.animated /\ motion' = Still /\ (precise => motion.kind = "scroll")
                  => pixels' = Picture(last')
  <1>1. ASSUME FramesInv, NEW rest \in BOOLEAN, Paint(rest),
               \/ ~presented'.animated /\ pixels = Picture(last)
               \/ presented'.animated /\ motion' = Still /\ (precise => motion.kind = "scroll")
        PROVE  pixels' = Picture(last')
    <2>1. PICK scene, s, aimed :
              /\ scene = Scene(text') /\ s \in Samples(rest) /\ aimed = Aimed(scene, s)
              /\ aimed = Still => StillFrame(scene)
              /\ aimed # Still => AnimatedFrame(scene, aimed, s)
              /\ motion' = (IF Ended(rest, aimed, scene) THEN Still ELSE aimed)
              /\ last' = scene
      BY <1>1, PaintIs
    <2>2. IsScene(scene)
      BY <1>1, <2>1, NextScene DEF Paint
    <2>3. CASE aimed = Still
      <3>1. ~presented'.animated
        BY <2>1, <2>3 DEF StillFrame, Shown
      <3> QED BY <1>1, <2>1, <2>2, <2>3, <3>1, StillTrue
    <2>4. CASE aimed # Still
      <3>1. presented'.animated
        BY <2>1, <2>4 DEF AnimatedFrame, Shown
      <3>2. Ended(rest, aimed, scene)
        BY <1>1, <2>1, <2>4, <3>1
      <3>3. rest = TRUE
        BY <3>2 DEF Ended
      <3> QED BY <1>1, <2>1, <2>2, <2>4, <3>1, <3>2, <3>3, EndTrue
    <2> QED BY <2>3, <2>4
  <1>2. ASSUME FramesInv, [FramesNext]_frameVars
        PROVE  [A]_frameVars
    <2>1. ASSUME NEW t, NEW extra, Event(t, extra)
          PROVE  A
      <3>1. "repaint" \in events'
        BY <2>1 DEF Event
      <3> QED BY <3>1
    <2>2. CASE \E rest \in BOOLEAN : Paint(rest)
      BY <1>1, <1>2, <2>2
    <2>3. CASE UNCHANGED frameVars
      BY <2>3
    <2> HIDE DEF A
    <2>4. Type \/ MoveCaret \/ Restyle \/ Wheel \/ Resize => A
      BY <2>1 DEF Type, MoveCaret, Restyle, Wheel, Resize
    <2> QED BY <1>2, <2>2, <2>3, <2>4 DEF FramesNext
  <1> QED BY <1>2, FramesInvariant, PTL DEF FramesSpec, FramesAreTrue
=============================================================================
