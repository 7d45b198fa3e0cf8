--------------------------- MODULE TaskLifecycle ---------------------------
(***************************************************************************)
(* What AsyncRuntime promises the owner of a worker task, with no queue,   *)
(* thread or libuv handle in sight: a submitted task stays open until the  *)
(* editor thread is told its fate exactly once, unless the runtime is torn *)
(* down first; a stop request alone decides nothing.                       *)
(***************************************************************************)
CONSTANT Task

VARIABLES fate,     \* what the owner of each task has been told
          stop,     \* tasks whose stop source has been triggered
          result,   \* what the worker made of each task
          closing   \* the runtime is being destroyed

lifecycleVars == <<fate, stop, result, closing>>

Fate   == {"new", "open", "rejected", "completed", "cancelled", "failed", "discarded"}
Result == {"none", "completion", "acknowledged", "exception"}

Init == /\ fate = [t \in Task |-> "new"]
        /\ stop = [t \in Task |-> FALSE]
        /\ result = [t \in Task |-> "none"]
        /\ closing = FALSE

Settle(t, f) == fate[t] = "open" /\ fate' = [fate EXCEPT ![t] = f]

Submit(t) == /\ ~closing /\ fate[t] = "new"
             /\ fate' = [fate EXCEPT ![t] = "open"]
             /\ UNCHANGED <<stop, result, closing>>

\* submit() threw: the caller holds no id and nothing will be called back.
Reject(t) == /\ ~closing /\ result[t] = "none"
             /\ Settle(t, "rejected")
             /\ UNCHANGED <<stop, result, closing>>

RequestStop(t) == /\ stop' = [stop EXCEPT ![t] = TRUE]
                  /\ UNCHANGED <<fate, result, closing>>

\* Only work that can see its stop request may acknowledge one.
Work(t, r) == /\ result[t] = "none"
              /\ r = "acknowledged" => stop[t]
              /\ result' = [result EXCEPT ![t] = r]
              /\ UNCHANGED <<fate, stop, closing>>

\* The one callback a task gets says what its worker did.
Deliver(t, f) ==
    /\ ~closing
    /\ f = "completed" => result[t] = "completion"
    /\ f = "failed"    => result[t] = "exception"
    /\ f = "cancelled" => stop[t] /\ result[t] \in {"none", "acknowledged"}
    /\ Settle(t, f)
    /\ UNCHANGED <<stop, result, closing>>

Close == /\ ~closing
         /\ closing' = TRUE
         /\ UNCHANGED <<fate, stop, result>>

\* Teardown drops open tasks without a callback and stops the ones left.
DiscardAndStop(S, R) ==
    /\ \A t \in S : fate[t] = "open"
    /\ fate' = [t \in Task |-> IF t \in S THEN "discarded" ELSE fate[t]]
    /\ stop' = [t \in Task |-> t \in R \/ stop[t]]

Discard == /\ closing
           /\ \E S, R \in SUBSET Task : DiscardAndStop(S, R)
           /\ UNCHANGED <<result, closing>>

Next == \/ \E t \in Task : Submit(t) \/ Reject(t) \/ RequestStop(t)
        \/ \E t \in Task, r \in Result \ {"none"} : Work(t, r)
        \/ \E t \in Task, f \in {"completed", "cancelled", "failed"} : Deliver(t, f)
        \/ Close \/ Discard

Spec == Init /\ [][Next]_lifecycleVars
=============================================================================
