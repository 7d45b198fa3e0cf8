------------------------- MODULE RequestLifecycle --------------------------
(***************************************************************************)
(* What a service promises those who send it requests, with no transport,  *)
(* handshake or server in sight: an accepted request ends once, answered,  *)
(* cancelled or failed; a service that breaks fails all of them at once    *)
(* and takes no more; one that is closed cancels all of them.              *)
(***************************************************************************)
CONSTANT Requests

VARIABLES fate,     \* what the owner of each request has been told
          broken, closed

requestVars == <<fate, broken, closed>>

Open == {r \in Requests : fate[r] = "open"}
EndAll(f) == [r \in Requests |-> IF r \in Open THEN f ELSE fate[r]]

Init == /\ fate = [r \in Requests |-> "none"]
        /\ broken = FALSE /\ closed = FALSE

Working == ~broken /\ ~closed /\ UNCHANGED closed

Accept(r) == /\ Working /\ UNCHANGED broken
             /\ fate[r] = "none"
             /\ fate' = [fate EXCEPT ![r] = "open"]

End(r) == /\ Working /\ UNCHANGED broken
          /\ r \in Open
          /\ \E f \in {"completed", "failed", "cancelled"} : fate' = [fate EXCEPT ![r] = f]

\* It breaks by itself, on taking a request, or on cancelling one.
Break == /\ Working /\ broken' = TRUE
         /\ \/ fate' = EndAll("failed")
            \/ \E r \in Requests : /\ fate[r] = "none"
                                  /\ fate' = [EndAll("failed") EXCEPT ![r] = "failed"]
            \/ \E r \in Open : fate' = [EndAll("failed") EXCEPT ![r] = "cancelled"]

Close == /\ ~closed /\ closed' = TRUE
         /\ fate' = EndAll("cancelled")
         /\ broken' = FALSE

Next == \/ \E r \in Requests : Accept(r) \/ End(r)
        \/ Break \/ Close

Spec == Init /\ [][Next]_requestVars
=============================================================================
