------------------------------- MODULE Service -------------------------------
(***************************************************************************)
(* The life of the process: main and its input thread (main.cpp), the io   *)
(* threads and the accept loop of http_server (http_server.cpp).           *)
(*                                                                         *)
(* A connection is open or not; what happens on it is RpcSession.  Of what *)
(* a session does, two things reach the rest of the process: an exception  *)
(* that nothing catches (RpcSession, down), and an io thread held by the   *)
(* synchronous SSL shutdown of an upstream call (HttpJsonRpcRequest,       *)
(* ErrClose).                                                              *)
(***************************************************************************)
CONSTANTS
    \* The io threads: as many as settings::service::threads.
    Threads,
    \* Who may connect; who has a loopback address; who is in service.access.
    Clients, Loopback, Access,
    \* settings::service::any_conns.
    AnyConns,
    \* Stands for no client.
    NoClient

ASSUME ServiceAssumption ==
    /\ Loopback \subseteq Clients /\ Access \subseteq Clients /\ AnyConns \in BOOLEAN
    /\ NoClient \notin Clients

VARIABLES
    main,       \* where main is
    input,      \* where input_thr is
    typed,      \* "stop" has been typed
    server,     \* the unique_ptr is not null
    stopped,    \* m_io_ctx.stop() has been called
    io,         \* where each io thread is
    peer,       \* the connection an io thread handles in the accept handler
    accepting,  \* an async_accept is outstanding
    client,     \* each client's connection
    gone,       \* the clients that have reset their connection
    signal,     \* the signal that signals.async_wait waits for
    crash       \* what ended the process, if anything did

vars == <<main, input, typed, server, stopped, io, peer, accepting, client, gone, signal, crash>>

MainPcs  == {"spawn", "construct", "listen", "threads", "join", "join_input", "exit"}
InputPcs == {"none", "reading", "stop", "done"}
\*   check    in the accept handler      drop     shutting the socket down
\*   blocked  in an SSL shutdown         ended    io_context::run has returned
IoPcs    == {"none", "idle", "check", "drop", "blocked", "ended"}
ClientStates == {"away", "waiting", "accepted", "session", "dropped"}
Crashes  == {"none", "null", "bind", "endpoint", "session", "signal"}

\* Every variable keeps its type.
TypeOK ==
    /\ main \in MainPcs /\ input \in InputPcs
    /\ typed \in BOOLEAN /\ server \in BOOLEAN /\ stopped \in BOOLEAN /\ accepting \in BOOLEAN
    /\ io \in [Threads -> IoPcs] /\ peer \in [Threads -> Clients \cup {NoClient}]
    /\ client \in [Clients -> ClientStates] /\ gone \subseteq Clients
    /\ signal \in {"none", "queued", "logged"} /\ crash \in Crashes

Init ==
    /\ main = "spawn" /\ input = "none" /\ typed = FALSE
    /\ server = FALSE /\ stopped = FALSE /\ accepting = FALSE
    /\ io = [t \in Threads |-> "none"] /\ peer = [t \in Threads |-> NoClient]
    /\ client = [c \in Clients |-> "away"] /\ gone = {}
    /\ signal = "none" /\ crash = "none"

Running == crash = "none" /\ main # "exit"

\* std::terminate, the signal of a null pointer, or another one that nobody handles.
Crash(why) ==
    /\ crash' = why
    /\ UNCHANGED <<main, input, typed, server, stopped, io, peer, accepting, client, gone, signal>>

-----------------------------------------------------------------------------
(* main.                                                                   *)

SpawnInput ==
    /\ Running /\ main = "spawn"
    /\ main' = "construct" /\ input' = "reading"
    /\ UNCHANGED <<typed, server, stopped, io, peer, accepting, client, gone, signal, crash>>

\* Mutant of Construct: run() is called on an object that the pointer of main.cpp,
\* which input_handler uses, does not yet point to.
ConstructUnassigned ==
    /\ Running /\ main = "construct"
    /\ main' = "listen"
    /\ UNCHANGED <<input, typed, server, stopped, io, peer, accepting, client, gone, signal, crash>>

Construct ==
    /\ Running /\ main = "construct"
    /\ main' = "listen" /\ server' = TRUE
    /\ UNCHANGED <<input, typed, stopped, io, peer, accepting, client, gone, signal, crash>>

\* The acceptor binds and listens, or throws: input_thr is then destroyed while it
\* can be joined, before main's catch block is reached.
Listen ==
    /\ Running /\ main = "listen"
    /\ \/ Crash("bind")
       \/ /\ main' = "threads" /\ accepting' = TRUE
          /\ UNCHANGED <<input, typed, server, stopped, io, peer, client, gone, signal, crash>>

StartThreads ==
    /\ Running /\ main = "threads"
    /\ main' = "join" /\ io' = [t \in Threads |-> "idle"]
    /\ UNCHANGED <<input, typed, server, stopped, peer, accepting, client, gone, signal, crash>>

\* Mutant of JoinThreads: run() returns when one of its threads has.
JoinOneThread ==
    /\ Running /\ main = "join"
    /\ \E t \in Threads : io[t] = "ended"
    /\ main' = "join_input"
    /\ UNCHANGED <<input, typed, server, stopped, io, peer, accepting, client, gone, signal, crash>>

\* The end of run(), which destroys the acceptor.
JoinThreads ==
    /\ Running /\ main = "join"
    /\ \A t \in Threads : io[t] = "ended"
    /\ main' = "join_input"
    /\ UNCHANGED <<input, typed, server, stopped, io, peer, accepting, client, gone, signal, crash>>

JoinInput ==
    /\ Running /\ main = "join_input" /\ input = "done"
    /\ main' = "exit"
    /\ UNCHANGED <<input, typed, server, stopped, io, peer, accepting, client, gone, signal, crash>>

Main == SpawnInput \/ Construct \/ Listen \/ StartThreads \/ JoinThreads \/ JoinInput

-----------------------------------------------------------------------------
(* input_handler.  Anything else that is typed, and the end of the input,  *)
(* leave it in its loop.                                                   *)

UserTypesStop ==
    /\ Running /\ ~typed /\ typed' = TRUE
    /\ UNCHANGED <<main, input, server, stopped, io, peer, accepting, client, gone, signal, crash>>

ReadStop ==
    /\ Running /\ input = "reading" /\ typed
    /\ input' = "stop"
    /\ UNCHANGED <<main, typed, server, stopped, io, peer, accepting, client, gone, signal, crash>>

\* Mutant of Stop: input_handler goes on reading.
StopNoBreak ==
    /\ Running /\ input = "stop"
    /\ \/ ~server /\ Crash("null")
       \/ /\ server
          /\ stopped' = TRUE /\ input' = "reading"
          /\ UNCHANGED <<main, typed, server, io, peer, accepting, client, gone, signal, crash>>

\* server->stop(): through a null pointer as long as server is not constructed.
Stop ==
    /\ Running /\ input = "stop"
    /\ \/ ~server /\ Crash("null")
       \/ /\ server
          /\ stopped' = TRUE /\ input' = "done"
          /\ UNCHANGED <<main, typed, server, io, peer, accepting, client, gone, signal, crash>>

InputThread == ReadStop \/ Stop

-----------------------------------------------------------------------------
(* The io threads.                                                         *)

check_access(c) == AnyConns \/ c \in Loopback \/ c \in Access

\* io_context::run starts no handler once the context is stopped.
Idle(t) == Running /\ io[t] = "idle" /\ ~stopped

AcceptFails(t) ==
    /\ Idle(t) /\ accepting
    /\ io' = [io EXCEPT ![t] = "check"]
    /\ accepting' = FALSE
    /\ UNCHANGED <<main, input, typed, server, stopped, peer, client, gone, signal, crash>>

\* The handler of async_accept is entered with a connection.
Accepted(t, c) ==
    /\ Idle(t) /\ accepting /\ client[c] = "waiting"
    /\ io' = [io EXCEPT ![t] = "check"] /\ peer' = [peer EXCEPT ![t] = c]
    /\ client' = [client EXCEPT ![c] = "accepted"]
    /\ accepting' = FALSE
    /\ UNCHANGED <<main, input, typed, server, stopped, gone, signal, crash>>

\* accept(acceptor), at the end of the handler on every path.
Leave(t) ==
    /\ io' = [io EXCEPT ![t] = "idle"] /\ peer' = [peer EXCEPT ![t] = NoClient]
    /\ accepting' = TRUE

\* The error is logged.
HandleError(t) ==
    /\ Running /\ io[t] = "check" /\ peer[t] = NoClient
    /\ Leave(t)
    /\ UNCHANGED <<main, input, typed, server, stopped, client, gone, signal, crash>>

\* remote_endpoint() throws when the connection has been reset.
\* (Mutants first: the next accept is started before the connection is dealt with;
\* a connection that is refused ends the loop.)
HandleConnectionEarly(t) ==
    /\ Running /\ io[t] = "check" /\ peer[t] # NoClient
    /\ \/ peer[t] \in gone /\ Crash("endpoint")
       \/ /\ peer[t] \notin gone /\ check_access(peer[t])
          /\ client' = [client EXCEPT ![peer[t]] = "session"]
          /\ Leave(t)
          /\ UNCHANGED <<main, input, typed, server, stopped, gone, signal, crash>>
       \/ /\ peer[t] \notin gone /\ ~check_access(peer[t])
          /\ io' = [io EXCEPT ![t] = "drop"] /\ accepting' = TRUE
          /\ UNCHANGED <<main, input, typed, server, stopped, peer, client, gone, signal, crash>>

HandleConnection(t) ==
    /\ Running /\ io[t] = "check" /\ peer[t] # NoClient
    /\ \/ peer[t] \in gone /\ Crash("endpoint")
       \/ /\ peer[t] \notin gone /\ check_access(peer[t])
          /\ client' = [client EXCEPT ![peer[t]] = "session"]
          /\ Leave(t)
          /\ UNCHANGED <<main, input, typed, server, stopped, gone, signal, crash>>
       \/ /\ peer[t] \notin gone /\ ~check_access(peer[t])
          /\ io' = [io EXCEPT ![t] = "drop"]
          /\ UNCHANGED <<main, input, typed, server, stopped, peer, accepting, client, gone, signal, crash>>

DropNoAccept(t) ==
    /\ Running /\ io[t] = "drop"
    /\ \/ peer[t] \in gone /\ Crash("endpoint")
       \/ /\ peer[t] \notin gone
          /\ client' = [client EXCEPT ![peer[t]] = "dropped"]
          /\ io' = [io EXCEPT ![t] = "idle"] /\ peer' = [peer EXCEPT ![t] = NoClient]
          /\ UNCHANGED <<main, input, typed, server, stopped, accepting, gone, signal, crash>>

\* socket.shutdown() throws too.
Drop(t) ==
    /\ Running /\ io[t] = "drop"
    /\ \/ peer[t] \in gone /\ Crash("endpoint")
       \/ /\ peer[t] \notin gone
          /\ client' = [client EXCEPT ![peer[t]] = "dropped"]
          /\ Leave(t)
          /\ UNCHANGED <<main, input, typed, server, stopped, gone, signal, crash>>

\* What sessions do to an io thread.
SessionBlocks(t) ==
    /\ Idle(t) /\ \E c \in Clients : client[c] = "session"
    /\ io' = [io EXCEPT ![t] = "blocked"]
    /\ UNCHANGED <<main, input, typed, server, stopped, peer, accepting, client, gone, signal, crash>>

SessionThrows(t) ==
    /\ Idle(t) /\ \E c \in Clients : client[c] = "session"
    /\ Crash("session")

\* The upstream peer lets the shutdown return.
Unblocked(t) ==
    /\ Running /\ io[t] = "blocked"
    /\ io' = [io EXCEPT ![t] = "idle"]
    /\ UNCHANGED <<main, input, typed, server, stopped, peer, accepting, client, gone, signal, crash>>

\* signal_handler, which logs; the wait is not started again.
SignalHandled(t) ==
    /\ Idle(t) /\ signal = "queued"
    /\ signal' = "logged"
    /\ UNCHANGED <<main, input, typed, server, stopped, io, peer, accepting, client, gone, crash>>

\* io_context::run also returns when nothing is outstanding: no accept, no signal,
\* and no session but those that ended with their connection.
OutOfWork ==
    /\ ~accepting /\ signal = "logged"
    /\ \A t \in Threads : io[t] \in {"idle", "ended"}
    /\ \A c \in Clients : client[c] = "session" => c \in gone

RunReturns(t) ==
    /\ Running /\ io[t] = "idle" /\ (stopped \/ OutOfWork)
    /\ io' = [io EXCEPT ![t] = "ended"]
    /\ UNCHANGED <<main, input, typed, server, stopped, peer, accepting, client, gone, signal, crash>>

AcceptLoop(t) ==
    \/ \E c \in Clients : Accepted(t, c)
    \/ HandleError(t) \/ HandleConnection(t) \/ Drop(t)

IoThread(t) ==
    \/ AcceptLoop(t) \/ AcceptFails(t) \/ RunReturns(t)
    \/ SessionBlocks(t) \/ SessionThrows(t) \/ Unblocked(t) \/ SignalHandled(t)

-----------------------------------------------------------------------------
(* The clients, and whoever sends signals (external).                      *)

Connects(c) ==
    /\ Running /\ main \in {"threads", "join"} /\ client[c] = "away"
    /\ client' = [client EXCEPT ![c] = "waiting"]
    /\ UNCHANGED <<main, input, typed, server, stopped, io, peer, accepting, gone, signal, crash>>

Resets(c) ==
    /\ Running /\ client[c] \in {"waiting", "accepted", "session"} /\ c \notin gone
    /\ gone' = gone \cup {c}
    /\ UNCHANGED <<main, input, typed, server, stopped, io, peer, accepting, client, signal, crash>>

\* SIGINT, SIGTERM or SIGABRT: the signal_set is a local variable of run(), before
\* and after which the signal ends the process.  Within it, only the first counts.
Signal ==
    /\ Running
    /\ \/ main \notin {"threads", "join"} /\ Crash("signal")
       \/ /\ main \in {"threads", "join"} /\ signal = "none"
          /\ signal' = "queued"
          /\ UNCHANGED <<main, input, typed, server, stopped, io, peer, accepting, client, gone, crash>>

Terminated == ~Running /\ UNCHANGED vars

Next ==
    \/ Main \/ UserTypesStop \/ InputThread
    \/ \E t \in Threads : IoThread(t)
    \/ \E c \in Clients : Connects(c) \/ Resets(c)
    \/ Signal \/ Terminated

Spec == Init /\ [][Next]_vars

\* The threads run: a thread that is inside the accept loop goes on, a stopped
\* thread returns.  An accept does not fail for ever.  Nothing makes a user type,
\* a client connect or an upstream peer let a shutdown return.
Fairness ==
    /\ WF_vars(Main) /\ WF_vars(InputThread)
    /\ \A t \in Threads :
        /\ WF_vars(HandleError(t) \/ HandleConnection(t) \/ Drop(t))
        /\ WF_vars(RunReturns(t))
    /\ \A c \in Clients : SF_vars(\E t \in Threads : Accepted(t, c))

FairSpec == Spec /\ Fairness

-----------------------------------------------------------------------------
(* Properties.                                                             *)

Handling(t) == io[t] \in {"check", "drop"}

\* The accept loop runs on as many threads as there are, without a strand: there
\* is nevertheless always exactly one accept outstanding or one thread inside its
\* handler, so that the acceptor is neither used twice at a time nor forgotten.
AcceptSerial ==
    main \in {"threads", "join"} =>
        \/ accepting /\ \A t \in Threads : ~Handling(t)
        \/ ~accepting /\ \E t \in Threads : \A u \in Threads : Handling(u) <=> u = t

\* The accept handler holds the acceptor, a local variable of run(), by reference:
\* no handler is running when run() has returned.
AcceptorAlive == \A t \in Threads : Handling(t) => main = "join"

\* Only "stop" ends the service: run() never returns because its threads have run out
\* of work, whatever signals come and connections break, unless it has no threads
\* ("service.threads": 0 in settings.json); and then main still waits for "stop".
ServesUntilStopped ==
    /\ main = "join_input" => stopped \/ Threads = {}
    /\ main = "exit" => stopped

\* While the service runs, only a client can bring it down: one that reset its
\* connection between the accept and the end of the accept handler, or one whose
\* session throws.  Neither "stop", whenever it is typed, nor a signal nor a failed
\* bind does.
OnlyClientsCrash ==
    main \in {"threads", "join"} /\ crash # "none" =>
        \/ crash = "endpoint" /\ \E c \in gone : client[c] = "accepted"
        \/ crash = "session" /\ \E c \in Clients : client[c] = "session"

\* "stop" ends the process, by a clean exit or a crash, whenever it is typed: before
\* the server is constructed, before it listens, while connections are accepted; as
\* long as no upstream peer holds an io thread for ever.
StopEnds ==
    (\A t \in Threads : []<>(io[t] # "blocked")) => (typed ~> ~Running)

\* Everyone who connects is given a session or is refused, unless the process ends
\* or upstream peers hold all io threads for ever: no path loses the accept loop.
EveryoneHandled ==
    []<>(\E t \in Threads : io[t] # "blocked")
        => \A c \in Clients : client[c] = "waiting" ~> client[c] # "waiting" \/ stopped \/ ~Running
=============================================================================
