---------------------------- MODULE MCRpcSession ----------------------------
(***************************************************************************)
(* Requests for model checking RpcSession: all of them, without those that *)
(* differ only in fields process_request does not look at.                 *)
(***************************************************************************)
EXTENDS RpcSession

Request(k, i, p) == [kind |-> k, id |-> i, params |-> p]

PlainRequests ==
    {Request("bad_http", "zero", "valid"), Request("bad_json", "zero", "valid"),
     Request("not_object", "zero", "valid")}
    \cup {Request("unknown", i, "valid") : i \in Ids}
    \cup {Request("get-tx", "number", "valid")}
    \cup {Request(k, i, p) : k \in {"generate", "fetch"}, i \in Ids, p \in {"valid", "invalid"}}

\* Requests for transactions, and those that fail before the first upstream call.
TxRequests      == {Request(k, i, "valid") : k \in TxKinds, i \in {"number", "text"}}
TxEarlyFailures == {Request(k, "zero", "valid") : k \in TxKinds}
                   \cup {Request(k, "number", "invalid") : k \in TxKinds}

RegularRequests == PlainRequests \cup TxRequests
AnyRequests     == RegularRequests \cup TxEarlyFailures
=============================================================================
