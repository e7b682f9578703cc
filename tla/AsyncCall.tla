------------------------------ MODULE AsyncCall ------------------------------
(***************************************************************************)
(* What an asynchronous upstream call promises its caller: after Call, at  *)
(* most one Return, which carries one outcome that never changes.          *)
(* http_json_rpc_request is shown to implement it; the session model uses  *)
(* it in place of the detailed request.                                    *)
(***************************************************************************)
CONSTANT
    \* The outcomes of a call.
    Outcomes

VARIABLES status, outcome

vars == <<status, outcome>>

Init == status = "idle" /\ outcome = "none"

Call == status = "idle" /\ status' = "pending" /\ UNCHANGED outcome

Return(r) == status = "pending" /\ status' = "returned" /\ outcome' = r

Next == Call \/ \E r \in Outcomes : Return(r)

Spec == Init /\ [][Next]_vars
=============================================================================
