----------------------------- MODULE RpcSession -----------------------------
(***************************************************************************)
(* One client connection (http_session.cpp) and the handlers of its        *)
(* requests (task_handlers/).  An io thread reads a request and runs       *)
(* process_request; upstream calls are completed on an io thread and       *)
(* answer through boost::asio::post, that is on a thread of the system     *)
(* executor.  A call to the upstream service is what AsyncCall promises:   *)
(* one return per call.                                                    *)
(*                                                                         *)
(* The client sends its next request once it has the answer to the last,   *)
(* as an HTTP client that does not pipeline.  It may hang up at any time.  *)
(***************************************************************************)
EXTENDS Naturals, Sequences

CONSTANTS
    \* How many requests the client sends on the connection.
    N,
    \* The requests the client chooses from.
    Requests

\* The kinds of request process_request and map_handlers tell apart: an HTTP
\* path or verb that is refused, a body that is not JSON or is JSON but no object,
\* a method that is not in map_handlers, one that is not implemented, and the five
\* that are.
TxKinds   == {"create-tx", "send-tx"}
Refused   == {"bad_http", "bad_json", "not_object", "unknown"}
Kinds     == Refused \cup {"get-tx", "generate", "fetch"} \cup TxKinds

\* What get_id() makes of the id field: a number, 0 (absent, 0 or of another
\* type), or an exception of std::stoi.
Ids       == {"number", "zero", "text"}

\* "params" says whether every check of prepare_params before the first upstream
\* call succeeds, the opening of the wallet included.
AllRequests == [kind : Kinds, id : Ids, params : {"valid", "invalid"}]

ASSUME NAssumption        == N \in Nat
ASSUME RequestsAssumption == Requests \subseteq AllRequests

VARIABLES
    configured, \* settings::service has a coin key and a token
    sent,       \* the requests the client has sent
    read,       \* where run() is in the client's stream: how many requests async_read
                \* has taken from the socket and handed to process_request
    received,   \* the replies the client has received, in order
    closed,     \* the client has hung up
    down,       \* an exception has ended the process (std::terminate)
    writer,     \* m_writer of the handler of each request
    call,       \* the upstream call each handler waits for
    upstream,   \* what the last upstream call of a request returned
    posts,      \* jobs of the system executor
    threw,      \* the requests whose perform or base_network_handler::execute threw
    onstack,    \* the request whose handler has started an upstream call and has
                \* not yet left the io thread that runs it, or 0
    raced       \* the requests whose m_writer was written meanwhile

vars == <<configured, sent, read, received, closed, down, writer, call, upstream, posts, threw,
          onstack, raced>>

stack == <<onstack, raced>>

Index == 1 .. N

\* A document under construction or sent: whose request it belongs to, its id,
\* whether it carries method, token and params of an upstream request, whether it
\* carries other members copied from an upstream answer, and which of the members
\* result and error (or the text of a bad request) it has.
Docs == [req : Index, id : {"own", "null"}, outgoing : BOOLEAN, copied : BOOLEAN,
         body : SUBSET {"result", "error", "bad_request"}]

Calls   == {"none", "params", "final"}
Returns == {"none", "result", "error", "invalid", "not_object"}
Jobs    == [job : {"send_json"}, doc : Docs] \cup [job : {"execute"}, req : Index]

\* Every variable keeps its type.
TypeOK ==
    /\ configured \in BOOLEAN
    /\ sent \in Seq(AllRequests) /\ Len(sent) <= N
    /\ read \in 0 .. Len(sent)
    /\ received \in Seq(Docs)
    /\ closed \in BOOLEAN /\ down \in BOOLEAN
    /\ writer \in [Index -> Docs]
    /\ call \in [Index -> Calls] /\ upstream \in [Index -> Returns]
    /\ posts \subseteq Jobs
    /\ threw \subseteq Index
    /\ onstack \in {0} \cup Index /\ raced \subseteq Index

\* json_rpc_writer(): id null, no members.
EmptyDoc(i) == [req |-> i, id |-> "null", outgoing |-> FALSE, copied |-> FALSE, body |-> {}]

Init ==
    /\ configured \in BOOLEAN
    /\ sent = <<>> /\ read = 0 /\ received = <<>>
    /\ closed = FALSE /\ down = FALSE
    /\ writer = [i \in Index |-> EmptyDoc(i)]
    /\ call = [i \in Index |-> "none"]
    /\ upstream = [i \in Index |-> "none"]
    /\ posts = {} /\ threw = {}
    /\ onstack = 0 /\ raced = {}

-----------------------------------------------------------------------------
(* Documents, replies and jobs.                                            *)

\* json_rpc_writer::reset keeps the id; the macros END_TRY* reset and set an error.
reset(doc) == [doc EXCEPT !.outgoing = FALSE, !.copied = FALSE, !.body = {}]
Error(doc) == [reset(doc) EXCEPT !.body = {"error"}]

\* json_rpc_writer::set_error alone leaves the other members where they are.
set_error(doc) == [doc EXCEPT !.body = @ \cup {"error"}]

\* send_response writes synchronously.  On a connection the client has closed the
\* write may go unnoticed or throw, and nothing catches the exception.
send_response(doc) ==
    \/ ~closed /\ received' = Append(received, doc) /\ UNCHANGED down
    \/ closed /\ down' \in BOOLEAN /\ UNCHANGED received

PostSend(doc) == posts' = posts \cup {[job |-> "send_json", doc |-> doc]}

-----------------------------------------------------------------------------
(* The client.                                                             *)

ClientSends ==
    /\ ~closed /\ ~down
    /\ Len(sent) < N /\ Len(received) >= Len(sent)
    /\ \E r \in Requests : sent' = Append(sent, r)
    /\ UNCHANGED <<configured, read, received, closed, down, writer, call,
                   upstream, posts, threw, stack>>

ClientCloses ==
    /\ ~closed /\ closed' = TRUE
    /\ UNCHANGED <<configured, sent, read, received, down, writer, call, upstream, posts, threw,
                   stack>>

-----------------------------------------------------------------------------
(* process_request, cut by the kind of request.  i is the request read.    *)

\* run() reads the next request when process_request has returned.
Reading(i) == i = read + 1 /\ i <= Len(sent) /\ ~down /\ onstack = 0 /\ read' = i

\* The first line of process_request asks for the endpoint of a peer that may be
\* gone, to log it; nothing catches the exception.
LogThrows(i) ==
    /\ Reading(i) /\ closed /\ down' = TRUE
    /\ UNCHANGED <<configured, sent, received, closed, writer, call, upstream, posts, threw, stack>>

\* send_bad_request, "Parse error" and "Method not found" answer at once.
\* get_id() throws outside every try block for a method that is not found.  Its
\* FindMember is undefined for a document that is no object: no member is found, or
\* memory that is not the document's is read.
Refuse(i) ==
    /\ Reading(i)
    /\ \/ /\ sent[i].kind = "bad_http"
          /\ send_response([EmptyDoc(i) EXCEPT !.body = {"bad_request"}])
       \/ /\ sent[i].kind = "bad_json"
          /\ send_response(Error(EmptyDoc(i)))
       \/ /\ sent[i].kind = "not_object"
          /\ \/ send_response(Error(EmptyDoc(i)))
             \/ down' = TRUE /\ UNCHANGED received
       \/ /\ sent[i].kind = "unknown" /\ sent[i].id # "text"
          /\ send_response(Error([EmptyDoc(i) EXCEPT
                                    !.id = IF sent[i].id = "number" THEN "own" ELSE "null"]))
       \/ /\ sent[i].kind = "unknown" /\ sent[i].id = "text"
          /\ down' = TRUE /\ UNCHANGED received
    /\ UNCHANGED <<configured, sent, closed, writer, call, upstream, posts, threw, stack>>

\* base_handler::prepare up to prepare_params: an id that is not a number throws
\* before set_id.
Handled(i) == sent[i].kind \in Kinds \ Refused
Prepared(i) == [EmptyDoc(i) EXCEPT !.id = IF sent[i].id = "number" THEN "own" ELSE "null"]

\* The checks of prepare itself, then those of prepare_params, which always fails
\* for a method that is not implemented.
ChecksFail(i) == sent[i].id = "text" \/ ~configured
FieldsFail(i) == sent[i].params = "invalid"
NotImplemented(i) == sent[i].kind = "get-tx"
ParamsFail(i) == FieldsFail(i) \/ sent[i].id = "zero" \/ NotImplemented(i)

\* The error is the synchronous reply.  create_tx_base_handler::prepare_params
\* posts it as well.
\* (A mutant first: nothing catches what get_id() throws in prepare.)
PrepareUncaught(i) ==
    /\ Reading(i) /\ Handled(i)
    /\ ChecksFail(i) \/ ParamsFail(i)
    /\ writer' = [writer EXCEPT ![i] = Error(Prepared(i))]
    /\ IF sent[i].id = "text" THEN down' = TRUE /\ UNCHANGED received
                             ELSE send_response(writer'[i])
    /\ UNCHANGED <<configured, sent, closed, call, upstream, posts, threw, stack>>

PrepareFails(i) ==
    /\ Reading(i) /\ Handled(i)
    /\ ChecksFail(i) \/ ParamsFail(i)
    /\ writer' = [writer EXCEPT ![i] = Error(Prepared(i))]
    /\ send_response(writer'[i])
    /\ IF sent[i].kind \in TxKinds /\ ~ChecksFail(i)
         THEN PostSend(writer'[i])
         ELSE UNCHANGED posts
    /\ UNCHANGED <<configured, sent, closed, call, upstream, threw, stack>>

\* perform: the constructor of a base_network_handler, which every handler but
\* generate's is, sets up TLS and may throw; the handler_result of the catch block
\* is empty and not pending.
PerformThrows(i) ==
    /\ Reading(i) /\ Handled(i) /\ sent[i].kind # "generate"
    /\ threw' = threw \cup {i}
    /\ send_response(EmptyDoc(i))
    /\ UNCHANGED <<configured, sent, closed, writer, call, upstream, posts, stack>>

Accepted(i) ==
    /\ Reading(i) /\ Handled(i)
    /\ ~ChecksFail(i) /\ ~ParamsFail(i)

\* generate_handler::execute: a new key file, or the error of an exception.
Generate(i) ==
    /\ Accepted(i) /\ sent[i].kind = "generate"
    /\ \/ writer' = [writer EXCEPT ![i] = [Prepared(i) EXCEPT !.body = {"result"}]]
       \/ writer' = [writer EXCEPT ![i] = Error(Prepared(i))]
    /\ send_response(writer'[i])
    /\ UNCHANGED <<configured, sent, closed, call, upstream, posts, threw, stack>>

\* base_network_handler::execute of a fetch: set_path or set_body throws before
\* pending is set, and process_request sends the error.
FetchFails(i) ==
    /\ Accepted(i) /\ sent[i].kind = "fetch"
    /\ writer' = [writer EXCEPT ![i] = Error(Prepared(i))]
    /\ send_response(writer'[i])
    /\ UNCHANGED <<configured, sent, closed, call, upstream, posts, threw, stack>>

\* base_network_handler::execute: pending is set before execute_async, so that an
\* exception of execute_async leaves the request without a reply.  For the posted
\* execute of send-tx, whose pending prepare_params has set, so does an exception of
\* set_path and set_body.
Execute(i, doc) ==
    \/ /\ writer' = [writer EXCEPT ![i] = [doc EXCEPT !.outgoing = TRUE]]
       /\ call' = [call EXCEPT ![i] = "final"]
       /\ UNCHANGED threw
    \/ /\ writer' = [writer EXCEPT ![i] = Error(doc)]
       /\ threw' = threw \cup {i}
       /\ UNCHANGED call

\* The handler stays on the io thread's stack when it has started a call.
StaysOnStack(i) ==
    /\ onstack' = IF call'[i] # "none" THEN i ELSE 0
    /\ UNCHANGED raced

\* Mutant of Fetch: pending is not set, so that process_request replies too.
FetchNotPending(i) ==
    /\ Accepted(i) /\ sent[i].kind = "fetch"
    /\ Execute(i, Prepared(i)) /\ StaysOnStack(i)
    /\ send_response(writer'[i])
    /\ UNCHANGED <<configured, sent, closed, upstream, posts>>

\* fetch-balance and fetch-history: process_request ends without a reply.
Fetch(i) ==
    /\ Accepted(i) /\ sent[i].kind = "fetch"
    /\ Execute(i, Prepared(i)) /\ StaysOnStack(i)
    /\ UNCHANGED <<configured, sent, received, closed, down, upstream, posts>>

\* create_tx_base_handler::get_transaction_params, with its own id.  pending is
\* set: when it fails, the posted error is the only reply.
\* (A mutant first: it is not posted.)
GetTransactionParamsSilent(i) ==
    /\ Accepted(i) /\ sent[i].kind \in TxKinds
    /\ \/ /\ writer' = [writer EXCEPT ![i] = Prepared(i)]
          /\ call' = [call EXCEPT ![i] = "params"]
       \/ /\ writer' = [writer EXCEPT ![i] = Error(Prepared(i))]
          /\ UNCHANGED call
    /\ StaysOnStack(i)
    /\ UNCHANGED <<configured, sent, received, closed, down, upstream, posts, threw>>

GetTransactionParams(i) ==
    /\ Accepted(i) /\ sent[i].kind \in TxKinds
    /\ \/ /\ writer' = [writer EXCEPT ![i] = Prepared(i)]
          /\ call' = [call EXCEPT ![i] = "params"]
          /\ UNCHANGED posts
       \/ /\ writer' = [writer EXCEPT ![i] = Error(Prepared(i))]
          /\ PostSend(writer'[i])
          /\ UNCHANGED call
    /\ StaysOnStack(i)
    /\ UNCHANGED <<configured, sent, received, closed, down, upstream, threw>>

\* Mutant of HandlerReturns: prepare does not look at pending before it sets an
\* error because prepare_params returned false.
HandlerReturnsPendingError(i) ==
    /\ ~down /\ onstack = i /\ onstack' = 0
    /\ down' \in IF i \in raced THEN BOOLEAN ELSE {FALSE}
    /\ writer' = IF sent[i].kind \in TxKinds /\ "error" \notin writer[i].body
                   THEN [writer EXCEPT ![i] = Error(@)] ELSE writer
    /\ UNCHANGED <<configured, sent, read, received, closed, call, upstream, posts, threw, raced>>

\* The rest of prepare (for a transaction, which logs m_writer), and result(), which
\* reads m_writer although the reply is pending and the text is dropped.  When the
\* call has been completed meanwhile it reads a document that another thread writes.
HandlerReturns(i) ==
    /\ ~down /\ onstack = i /\ onstack' = 0
    /\ down' \in IF i \in raced THEN BOOLEAN ELSE {FALSE}
    /\ UNCHANGED <<configured, sent, read, received, closed, writer, call, upstream, posts, threw,
                   raced>>

-----------------------------------------------------------------------------
(* The upstream service answers (external): a result, an error (its own or *)
(* the 3200x of http_json_rpc_request), or a document that is not an       *)
(* answer to this call: not JSON, another id, neither result nor error.    *)

\* A step that writes m_writer of request i.
Writes(i) ==
    /\ raced' = IF onstack = i THEN raced \cup {i} ELSE raced
    /\ UNCHANGED onstack

Return(i, c, r) ==
    /\ ~down /\ call[i] = c
    /\ call' = [call EXCEPT ![i] = "none"]
    /\ upstream' = [upstream EXCEPT ![i] = r]
    /\ Writes(i)

\* get_id() of an answer that is no object is undefined, as in Refuse.
NotObject(r) ==
    /\ r = "not_object" /\ down' = TRUE
    /\ UNCHANGED <<writer, posts>>

\* Mutants of on_complete: the error member is not looked at; no reset().
on_completeBlind(i, r) ==
    /\ Return(i, "final", r)
    /\ writer' = [writer EXCEPT ![i] = [reset(@) EXCEPT !.body = {"result"}]]
    /\ PostSend(writer'[i])
    /\ UNCHANGED <<configured, sent, read, received, closed, down, threw>>
on_completeNoReset(i, r) ==
    /\ Return(i, "final", r)
    /\ writer' = [writer EXCEPT ![i].body = IF r = "result" THEN {"result"} ELSE {"error"}]
    /\ PostSend(writer'[i])
    /\ UNCHANGED <<configured, sent, read, received, closed, down, threw>>

\* The members of the answer that are none of json_rpc_service (id, version, result
\* and error, in any case) are copied into the reply.
on_complete(i, r) ==
    /\ Return(i, "final", r)
    /\ \/ /\ \/ /\ r \in {"result", "error"}
                /\ \E others \in BOOLEAN :
                     writer' = [writer EXCEPT ![i] =
                                  [reset(@) EXCEPT !.body = {r}, !.copied = others]]
             \/ /\ r \notin {"result", "error"}
                /\ writer' = [writer EXCEPT ![i] = Error(@)]
          /\ PostSend(writer'[i])
          /\ UNCHANGED down
       \/ NotObject(r)
    /\ UNCHANGED <<configured, sent, read, received, closed, threw>>

\* on_get_transaction_params with check_json, which does not reset m_writer before
\* it copies an error, and build_request.  A result that lacks a field, or a
\* transaction that cannot be built, is an error.
on_get_transaction_params(i, r) ==
    /\ Return(i, "params", r)
    /\ \/ /\ writer' = [writer EXCEPT ![i] = IF r = "error" THEN set_error(@) ELSE Error(@)]
          /\ PostSend(writer'[i])
          /\ UNCHANGED down
       \/ /\ r = "result"
          /\ writer' = [writer EXCEPT ![i].outgoing = TRUE]
          /\ posts' = posts \cup {[job |-> "execute", req |-> i]}
          /\ UNCHANGED down
       \/ NotObject(r)
    /\ UNCHANGED <<configured, sent, read, received, closed, threw>>

-----------------------------------------------------------------------------
(* The system executor runs a posted job.                                  *)

PostedSend ==
    /\ ~down
    /\ \E p \in posts :
        /\ p.job = "send_json"
        /\ posts' = posts \ {p}
        /\ send_response(p.doc)
    /\ UNCHANGED <<configured, sent, read, closed, writer, call, upstream, threw, stack>>

\* create_tx_handler::execute only answers; send-tx calls upstream.
PostedExecute(i) ==
    /\ ~down
    /\ [job |-> "execute", req |-> i] \in posts
    /\ LET rest == posts \ {[job |-> "execute", req |-> i]} IN
        \/ /\ sent[i].kind = "create-tx"
           /\ writer' = [writer EXCEPT ![i].body = @ \cup {"result"}]
           /\ posts' = rest \cup {[job |-> "send_json", doc |-> writer'[i]]}
           /\ UNCHANGED <<call, threw>>
        \/ /\ sent[i].kind = "send-tx"
           /\ Execute(i, writer[i])
           /\ posts' = rest
    /\ Writes(i)
    /\ UNCHANGED <<configured, sent, read, received, closed, down, upstream>>

Terminated ==
    /\ down \/ closed \/ Len(received) >= N \/ threw # {}
    /\ UNCHANGED vars

Step(i) ==
    \/ LogThrows(i) \/ Refuse(i) \/ PrepareFails(i) \/ PerformThrows(i)
    \/ Generate(i) \/ FetchFails(i) \/ Fetch(i) \/ GetTransactionParams(i) \/ HandlerReturns(i)
    \/ \E r \in Returns \ {"none"} : on_complete(i, r) \/ on_get_transaction_params(i, r)
    \/ PostedExecute(i)

Next == ClientSends \/ ClientCloses \/ (\E i \in Index : Step(i)) \/ PostedSend \/ Terminated

Spec == Init /\ [][Next]_vars

\* Threads run, and an upstream call returns (HttpJsonRpcRequest, Answered).
Fairness == (\A i \in Index : WF_vars(Step(i))) /\ WF_vars(PostedSend)

FairSpec == Spec /\ Fairness

-----------------------------------------------------------------------------
(* Properties.                                                             *)

\* The k-th reply on the connection answers the k-th request.  A client that
\* does not pipeline tells replies apart by their order only.
RepliesInOrder == \A k \in DOMAIN received : received[k].req = k

\* "prepare_params must set an error" (base_handler.cpp) for process_request to
\* send, unless the request is pending and answers later: no request is answered
\* twice.
OneReply ==
    \A j, k \in DOMAIN received : received[j].req = received[k].req => j = k

\* A reply says "result" only when the upstream service returned a result to the
\* last call made for that request; a failed check is never reported as success.
NoFalseSuccess ==
    \A k \in DOMAIN received :
        LET i == received[k].req IN
        "result" \in received[k].body /\ sent[i].kind # "generate" => upstream[i] = "result"

\* Only the reply of create-tx, whose params are its answer, carries the members
\* of the request that was built for the upstream service.
NoRequestEcho ==
    \A k \in DOMAIN received :
        received[k].outgoing => sent[received[k].req].kind = "create-tx"

\* A reply has either a result or an error, never both, even if the upstream service
\* answers while prepare is still deciding whether to set an error.  (The text of a
\* bad request is its error; a handler that could not be made replies with nothing.)
OneOutcome ==
    \A k \in DOMAIN received :
        received[k].req \notin threw => \E b \in {"result", "error", "bad_request"} :
            received[k].body = {b}

\* The process ends only when a client hung up before its reply, named an unknown
\* method with an id that is no number, when a document was no JSON object, or when
\* a call was completed before its handler had left the io thread.
DownOnlyAfter ==
    down => \/ closed \/ raced # {}
            \/ \E i \in 1 .. read : \/ sent[i].kind = "unknown" /\ sent[i].id = "text"
                                   \/ sent[i].kind = "not_object"
            \/ \E i \in Index : upstream[i] = "not_object"

\* Every request is answered, unless the client hangs up, the process ends or
\* base_network_handler::execute throws with pending set.
EventuallyAnswered ==
    \A k \in Index : Len(sent) >= k ~> Len(received) >= k \/ closed \/ down \/ k \in threw
=============================================================================
