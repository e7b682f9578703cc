------------------------- MODULE HttpJsonRpcRequest -------------------------
(***************************************************************************)
(* One http_json_rpc_request (http_json_rpc_request.cpp): an HTTP call to  *)
(* the upstream JSON-RPC service, run by three kinds of threads.           *)
(*                                                                         *)
(*  - An io thread runs the chain of completion handlers on_resolve,       *)
(*    on_connect, on_handshake, on_write, on_read.  "io" is its program    *)
(*    counter inside a handler, "op" the asynchronous operation that is    *)
(*    outstanding or completed and not handled yet, "ec" how it ended.     *)
(*    The next operation is started by the handler of the previous one, so *)
(*    the chain is sequential whatever the number of io threads.           *)
(*  - Detached threads of m_timer run on_request_timeout ("tpc").          *)
(*  - Detached threads of m_connect_timer run on_connect_timeout ("cpc").  *)
(*                                                                         *)
(* A handler is cut into steps where another thread can interleave.        *)
(***************************************************************************)
EXTENDS Naturals

CONSTANTS
    \* The std::threads that m_timer and m_connect_timer may start.
    TimerThreads,
    ConnectThreads

VARIABLES
    m_use_ssl,          \* the settings name an https:// upstream
    op, ec, io,
    m_callback,         \* m_callback is not empty
    m_result,           \* what the m_result document holds
    calls,              \* how often m_callback() has been called
    outcome,            \* m_result as the last callback saw it
    sockOpen,           \* m_socket.is_open()
    established,        \* the SSL handshake has completed
    peerGone,           \* the peer has sent its close_notify or is gone
    alive,              \* the object has not been destroyed
    tHandler, tThr,     \* m_timer
    tpc,
    cHandler, cThr,     \* m_connect_timer
    cpc

call    == <<m_callback, m_result, calls, outcome>>
socket  == <<m_use_ssl, sockOpen, established, peerGone>>
timer   == <<tHandler, tThr>>
connect == <<cHandler, cThr>>
chain   == <<op, ec, io>>
vars    == <<chain, call, socket, alive, timer, tpc, connect, cpc>>

T == INSTANCE Timer WITH Threads <- TimerThreads,
                         m_handler <- tHandler, thr <- tThr
C == INSTANCE Timer WITH Threads <- ConnectThreads,
                         m_handler <- cHandler, thr <- cThr

Results == {"empty", "response", "error32000", "error32001", "error32002"}
Ops     == {"none", "resolve", "connect", "handshake", "write", "read"}
Codes   == {"pending", "ok", "failed", "bad_status", "garbage"}
IoPcs   == {"idle", "none", "async_connect", "send", "parse", "err_timer",
            "err_connect", "err_close", "err_result", "callback", "clear"}
TimeoutPcs == {"none", "stop_connect", "result", "callback", "clear", "close",
               "shutdown"}
ConnectTimeoutPcs == {"none", "cancel", "rearm", "return"}

\* Every variable keeps its type.
TypeOK ==
    /\ m_use_ssl \in BOOLEAN
    /\ op \in Ops /\ ec \in Codes /\ io \in IoPcs
    /\ m_callback \in BOOLEAN /\ m_result \in Results
    /\ calls \in 0 .. 1 /\ outcome \in Results \cup {"none"}
    /\ sockOpen \in BOOLEAN /\ established \in BOOLEAN /\ peerGone \in BOOLEAN
    /\ alive \in BOOLEAN
    /\ T!TypeOK /\ tpc \in TimeoutPcs
    /\ C!TypeOK /\ cpc \in ConnectTimeoutPcs

\* The constructor; the owning handler holds the request and will execute it.
Init ==
    /\ m_use_ssl \in BOOLEAN
    /\ op = "none" /\ ec = "ok" /\ io = "idle"
    /\ m_callback = FALSE /\ m_result = "empty" /\ calls = 0 /\ outcome = "none"
    /\ sockOpen = FALSE /\ established = FALSE /\ peerGone = FALSE
    /\ alive = TRUE
    /\ T!Init /\ tpc = "none"
    /\ C!Init /\ cpc = "none"

-----------------------------------------------------------------------------
(* The chain of completion handlers.                                       *)

\* An operation on a plain socket that on_request_timeout has closed fails at
\* once.  The socket of an https call is never closed by the time-out.
Begin(o) ==
    /\ op' = o
    /\ ec' = IF ~m_use_ssl /\ ~sockOpen /\ o # "resolve" THEN "failed" ELSE "pending"

execute_async ==
    /\ io = "idle" /\ io' = "none"
    /\ m_callback' = TRUE
    /\ Begin("resolve")
    /\ UNCHANGED <<m_result, calls, outcome, socket, alive, timer, tpc, connect, cpc>>

\* A handler is entered when its operation has completed.
Handling(o) == io = "none" /\ op = o /\ ec # "pending"

\* error_handler(e), up to m_timer.stop(), on which it may block.
Fail == ec = "failed" /\ io' = "err_timer" /\ op' = "none" /\ UNCHANGED ec

on_resolve ==
    /\ Handling("resolve")
    /\ \/ Fail /\ UNCHANGED connect
       \/ /\ ec = "ok"
          /\ \E t \in ConnectThreads : C!start(t)
          /\ io' = "async_connect" /\ op' = "none" /\ UNCHANGED ec
    /\ UNCHANGED <<call, socket, alive, timer, tpc, cpc>>

\* async_connect opens the socket it connects: m_socket for a plain call, the
\* lowest layer of m_ssl_socket otherwise.
AsyncConnect ==
    /\ io = "async_connect" /\ io' = "none"
    /\ op' = "connect" /\ ec' = "pending"
    /\ sockOpen' = ~m_use_ssl
    /\ UNCHANGED <<m_use_ssl, call, established, peerGone, alive, timer, tpc, connect, cpc>>

\* Mutants of on_connect: m_connect_timer is not stopped; m_timer is not started.
on_connectNoStop ==
    /\ Handling("connect")
    /\ \/ Fail /\ UNCHANGED timer
       \/ /\ ec = "ok"
          /\ \E t \in TimerThreads : T!start(t)
          /\ io' = "send" /\ op' = "none" /\ UNCHANGED ec
    /\ UNCHANGED <<call, socket, alive, tpc, connect, cpc>>

on_connectNoTimeout ==
    /\ Handling("connect")
    /\ C!stop
    /\ Fail \/ (ec = "ok" /\ io' = "send" /\ op' = "none" /\ UNCHANGED ec)
    /\ UNCHANGED <<call, socket, alive, timer, tpc, cpc>>

on_connect ==
    /\ Handling("connect")
    /\ C!stop
    /\ \/ Fail /\ UNCHANGED timer
       \/ /\ ec = "ok"
          /\ \E t \in TimerThreads : T!start(t)
          /\ io' = "send" /\ op' = "none" /\ UNCHANGED ec
    /\ UNCHANGED <<call, socket, alive, tpc, cpc>>

\* The end of on_connect: async_handshake for https, async_write otherwise.
Send ==
    /\ io = "send" /\ io' = "none"
    /\ Begin(IF m_use_ssl THEN "handshake" ELSE "write")
    /\ UNCHANGED <<call, socket, alive, timer, tpc, connect, cpc>>

on_handshake ==
    /\ Handling("handshake")
    /\ \/ Fail
       \/ ec = "ok" /\ Begin("write") /\ UNCHANGED io
    /\ UNCHANGED <<call, socket, alive, timer, tpc, connect, cpc>>

on_write ==
    /\ Handling("write")
    /\ \/ Fail
       \/ ec = "ok" /\ Begin("read") /\ UNCHANGED io
    /\ UNCHANGED <<call, socket, alive, timer, tpc, connect, cpc>>

\* Mutant of on_read: m_timer is not stopped.
on_readNoStop ==
    /\ Handling("read")
    /\ Fail \/ (ec # "failed" /\ io' = "parse" /\ op' = "none" /\ UNCHANGED ec)
    /\ UNCHANGED <<call, socket, alive, timer, tpc, connect, cpc>>

\* on_read up to m_timer.stop().
on_read ==
    /\ Handling("read")
    /\ \/ Fail /\ UNCHANGED timer
       \/ /\ ec # "failed"
          /\ T!stop
          /\ io' = "parse" /\ op' = "none" /\ UNCHANGED ec
    /\ UNCHANGED <<call, socket, alive, tpc, connect, cpc>>

\* m_result.parse() keeps the old document when the body is not JSON; only a
\* status other than 200 then turns it into an error.
Parse ==
    /\ io = "parse" /\ io' = "callback"
    /\ m_result' = CASE ec = "ok"         -> "response"
                     [] ec = "bad_status" -> "error32002"
                     [] OTHER             -> m_result
    /\ UNCHANGED <<op, ec, m_callback, calls, outcome, socket, alive,
                   timer, tpc, connect, cpc>>

-----------------------------------------------------------------------------
(* error_handler.                                                          *)

ErrStopTimer ==
    /\ io = "err_timer" /\ io' = "err_connect"
    /\ T!stop
    /\ UNCHANGED <<op, ec, call, socket, alive, tpc, connect, cpc>>

ErrStopConnectTimer ==
    /\ io = "err_connect" /\ io' = "err_close"
    /\ C!stop
    /\ UNCHANGED <<op, ec, call, socket, alive, timer, tpc, cpc>>

\* ssl::stream::shutdown() is synchronous: after a handshake it sends
\* close_notify and reads until the peer's own arrives.
ShutdownReturns == ~m_use_ssl \/ ~established \/ peerGone

ErrClose ==
    /\ io = "err_close" /\ io' = "err_result"
    /\ ShutdownReturns
    /\ sockOpen' = FALSE
    /\ UNCHANGED <<m_use_ssl, op, ec, call, established, peerGone, alive, timer, tpc, connect,
                   cpc>>

ErrResult ==
    /\ io = "err_result" /\ io' = "callback"
    /\ m_result' = "error32000"
    /\ UNCHANGED <<op, ec, m_callback, calls, outcome, socket, alive,
                   timer, tpc, connect, cpc>>

-----------------------------------------------------------------------------
(* perform_callback: the test and the call, then the clearing.  It takes   *)
(* no lock; both the chain and on_request_timeout call it.                 *)

\* Mutant of ClearCallback: the callback is not cleared.
ClearNothing == UNCHANGED call

InvokeCallback ==
    /\ m_callback
    /\ calls' = calls + 1 /\ outcome' = m_result
    /\ UNCHANGED <<m_callback, m_result>>

ClearCallback == m_callback' = FALSE /\ UNCHANGED <<m_result, calls, outcome>>

IoCallback ==
    /\ io = "callback"
    /\ \/ InvokeCallback /\ io' = "clear"
       \/ ~m_callback /\ io' = "none" /\ UNCHANGED call
    /\ UNCHANGED <<op, ec, socket, alive, timer, tpc, connect, cpc>>

IoClear ==
    /\ io = "clear" /\ io' = "none"
    /\ ClearCallback
    /\ UNCHANGED <<op, ec, socket, alive, timer, tpc, connect, cpc>>

IoStep ==
    \/ execute_async \/ on_resolve \/ AsyncConnect \/ on_connect \/ Send
    \/ on_handshake \/ on_write \/ on_read \/ Parse
    \/ ErrStopTimer \/ ErrStopConnectTimer \/ ErrClose \/ ErrResult
    \/ IoCallback \/ IoClear

-----------------------------------------------------------------------------
(* The thread of m_timer and on_request_timeout.                           *)

TimerThread(t) ==
    /\ \/ (T!GetFuture(t) \/ T!Expire(t) \/ T!FireStopped(t)) /\ UNCHANGED tpc
       \/ T!Fire(t) /\ tpc' = "stop_connect"
    /\ UNCHANGED <<chain, call, socket, alive, connect, cpc>>

TimeoutStopConnect ==
    /\ tpc = "stop_connect" /\ tpc' = "result"
    /\ C!stop
    /\ UNCHANGED <<chain, call, socket, alive, timer, cpc>>

\* Mutant of TimeoutResult: the connection is shut down before the report.
TimeoutResultLate ==
    /\ tpc = "result" /\ tpc' = "callback"
    /\ ShutdownReturns
    /\ m_result' = "error32001"
    /\ UNCHANGED <<chain, m_callback, calls, outcome, socket, alive, timer, connect, cpc>>

TimeoutResult ==
    /\ tpc = "result" /\ tpc' = "callback"
    /\ m_result' = "error32001"
    /\ UNCHANGED <<chain, m_callback, calls, outcome, socket, alive, timer, connect, cpc>>

TimeoutCallback ==
    /\ tpc = "callback"
    /\ \/ InvokeCallback /\ tpc' = "clear"
       \/ ~m_callback /\ tpc' = "close" /\ UNCHANGED call
    /\ UNCHANGED <<chain, socket, alive, timer, connect, cpc>>

TimeoutClear ==
    /\ tpc = "clear" /\ tpc' = "close"
    /\ ClearCallback
    /\ UNCHANGED <<chain, socket, alive, timer, connect, cpc>>

\* m_socket.close() aborts the operation of a plain call.
TimeoutClose ==
    /\ tpc = "close" /\ tpc' = "shutdown"
    /\ ec' = IF ~m_use_ssl /\ op # "none" /\ ec = "pending" THEN "failed" ELSE ec
    /\ sockOpen' = FALSE
    /\ UNCHANGED <<m_use_ssl, op, io, call, established, peerGone, alive, timer, connect, cpc>>

\* m_ssl_socket.shutdown(), then on_request_timeout returns to the Timer.
TimeoutReturn ==
    /\ tpc = "shutdown" /\ tpc' = "none"
    /\ ShutdownReturns
    /\ \E t \in TimerThreads : T!Return(t)
    /\ UNCHANGED <<chain, call, socket, alive, connect, cpc>>

TimeoutStep ==
    \/ \E t \in TimerThreads : TimerThread(t)
    \/ TimeoutStopConnect \/ TimeoutResult \/ TimeoutCallback \/ TimeoutClear
    \/ TimeoutClose \/ TimeoutReturn

-----------------------------------------------------------------------------
(* The threads of m_connect_timer and on_connect_timeout.                  *)

ConnectTimerThread(t) ==
    /\ \/ (C!GetFuture(t) \/ C!Expire(t) \/ C!FireStopped(t)) /\ UNCHANGED cpc
       \/ C!Fire(t) /\ cpc' = "cancel"
    /\ UNCHANGED <<chain, call, socket, alive, timer, tpc>>

\* m_socket.cancel() reaches a plain connect only.  The composed async_connect
\* goes on with the next endpoint, if there is one.
ConnectTimeoutCancel ==
    /\ cpc = "cancel" /\ cpc' = "rearm"
    /\ \/ UNCHANGED ec
       \/ ~m_use_ssl /\ op # "none" /\ ec = "pending" /\ ec' = "failed"
    /\ UNCHANGED <<op, io, call, socket, alive, timer, tpc, connect>>

ConnectTimeoutRearm ==
    /\ cpc = "rearm" /\ cpc' = "return"
    /\ \E t \in ConnectThreads : C!run_once(t)
    /\ UNCHANGED <<chain, call, socket, alive, timer, tpc, cHandler>>

ConnectTimeoutReturn ==
    /\ cpc = "return" /\ cpc' = "none"
    /\ \E t \in ConnectThreads : C!Return(t)
    /\ UNCHANGED <<chain, call, socket, alive, timer, tpc>>

ConnectTimeoutStep ==
    \/ \E t \in ConnectThreads : ConnectTimerThread(t)
    \/ ConnectTimeoutCancel \/ ConnectTimeoutRearm \/ ConnectTimeoutReturn

-----------------------------------------------------------------------------
(* The network (external).                                                 *)

\* A read that ends well carries JSON, or a body that is not JSON with a status
\* that is 200 (garbage) or is not (bad_status).
Endings(o) ==
    {"ok", "failed"} \cup IF o = "read" THEN {"bad_status", "garbage"} ELSE {}

\* An established connection that fails is gone, unless the answer was merely
\* not HTTP.
Complete ==
    /\ op # "none" /\ ec = "pending"
    /\ ec' \in Endings(op)
    /\ established' = (established \/ (op = "handshake" /\ ec' = "ok"))
    /\ \/ UNCHANGED peerGone
       \/ op \in {"write", "read"} /\ ec' = "failed" /\ peerGone' = TRUE
    /\ UNCHANGED <<m_use_ssl, op, io, call, sockOpen, alive, timer, tpc, connect, cpc>>

PeerCloses ==
    /\ established /\ ~peerGone /\ peerGone' = TRUE
    /\ UNCHANGED <<m_use_ssl, chain, call, sockOpen, established, alive, timer, tpc, connect,
                   cpc>>

-----------------------------------------------------------------------------
(* The end of the object.                                                  *)

\* Who owns a shared_ptr to the request: the running handler, the bound handler
\* of an operation, the handlers of the two timers, and the owner through the
\* cycle request -> m_callback -> handler -> request.
Referenced ==
    \/ io # "none" \/ op # "none"
    \/ tHandler \/ cHandler
    \/ m_callback

\* The destructor, when the last owner lets go.
Destroy ==
    /\ alive /\ ~Referenced
    /\ ShutdownReturns
    /\ alive' = FALSE /\ sockOpen' = FALSE
    /\ T!Destroyed /\ C!Destroyed
    /\ UNCHANGED <<m_use_ssl, chain, call, established, peerGone, tpc, cpc>>

Terminated == ~alive /\ UNCHANGED vars

Next ==
    \/ IoStep \/ TimeoutStep \/ ConnectTimeoutStep
    \/ Complete \/ PeerCloses
    \/ Destroy \/ Terminated

Spec == Init /\ [][Next]_vars

\* Threads run, time passes, a resolver and a TCP connect end by themselves (the
\* operating system's own time-outs).  Nothing makes a peer answer.
Fairness ==
    /\ WF_vars(IoStep)
    /\ WF_vars(TimeoutStep)
    /\ \A t \in ConnectThreads : WF_vars(ConnectTimerThread(t))
    /\ WF_vars(ConnectTimeoutCancel \/ ConnectTimeoutRearm \/ ConnectTimeoutReturn)
    /\ WF_vars(op \in {"resolve", "connect"} /\ Complete)
    /\ WF_vars(Destroy)

FairSpec == Spec /\ Fairness

-----------------------------------------------------------------------------
(* Properties.                                                             *)

\* perform_callback and the writes of m_result take no lock.  The chain and
\* on_request_timeout are nevertheless never inside them at the same time,
\* because error_handler and on_read call m_timer.stop() first, and stop()
\* waits for a running time-out handler.
NoResultRace ==
    ~ /\ io \in {"parse", "err_result", "callback", "clear"}
      /\ tpc \in {"result", "callback", "clear"}

\* A timer thread ends by clearing the handler that owns the request, while it
\* holds m_locker.  Were that the last owner, ~Timer would lock m_locker again
\* on the same thread.  It never is: the chain still owns the request whenever
\* a time-out handler runs.
TimerNotLastOwner ==
    tpc # "none" \/ cpc # "none" => op # "none" \/ io \notin {"idle", "none"}

\* on_connect_timeout cancels whatever m_socket is doing; it only ever runs
\* while the chain is connecting, never once the request is being written or
\* the answer read.
CancelOnlyWhileConnecting == cpc # "none" => io = "async_connect" \/ op = "connect"

\* on_connect_timeout re-arms its timer, but the Timer clears m_handler after
\* the call: the thread of the second arming never calls anything, so at most
\* one connection attempt of a request is cut short after 500 ms.
RearmIsInert ==
    \A t, u \in ConnectThreads :
        cThr[t] \in {"running", "ran"} /\ cThr[u] \in {"running", "ran"} => t = u

\* What the owner of the request sees.
A == INSTANCE AsyncCall WITH
        Outcomes <- Results,
        status   <- CASE calls = 0 -> IF io = "idle" THEN "idle" ELSE "pending"
                      [] calls = 1 -> "returned"
                      [] OTHER     -> "returned again"

\* The request calls back at most once, after execute_async, and what it reports
\* stays: neither a late answer nor an error after a time-out is reported too.
RefinesAsyncCall == A!Spec

\* Every executed plain http request is answered and destroyed in the end,
\* whatever the network does: no cycle of shared_ptrs, no lost time-out and no
\* lock keeps it.  It does not hold for https, whose socket is never closed by
\* on_request_timeout.
Released == io # "idle" /\ ~m_use_ssl ~> ~alive

\* Every executed request calls back, whatever the network does, as long as the
\* peer lets a synchronous SSL shutdown return.
Answered == []<>ShutdownReturns => (io # "idle" ~> calls = 1)

\* on_request_timeout reports before it shuts the connection down: its caller
\* gets an answer even when the peer never lets the shutdown return.
TimeoutAnswers == tpc # "none" ~> calls = 1
=============================================================================
