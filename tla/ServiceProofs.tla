---------------------------- MODULE ServiceProofs ----------------------------
(***************************************************************************)
(* The accept loop of http_server, for any number of io threads and        *)
(* clients.                                                                *)
(***************************************************************************)
EXTENDS Service, TLAPS

\* Where the io threads are while main is where it is; the accept loop belongs to
\* the time between listen and join.
Phases ==
    /\ main \in {"spawn", "construct", "listen", "threads"} => \A t \in Threads : io[t] = "none"
    /\ main = "join" => \A t \in Threads : io[t] # "none"
    /\ main \in {"join_input", "exit"} => \A t \in Threads : io[t] = "ended"

IInv == TypeOK /\ Phases /\ AcceptSerial

LEMMA InitIInv == Init => IInv
BY ServiceAssumption DEF Init, IInv, TypeOK, Phases, AcceptSerial, Handling, MainPcs, InputPcs,
   IoPcs, ClientStates, Crashes

\* Nothing that leaves main, io and accepting alone disturbs the loop.
LEMMA Frame ==
    ASSUME IInv, TypeOK', UNCHANGED <<main, io, accepting>>
    PROVE  IInv'
BY DEF IInv, Phases, AcceptSerial, Handling

LEMMA CrashStep ==
    ASSUME IInv, NEW why \in Crashes, Crash(why)
    PROVE  IInv'
<1>1. TypeOK' BY DEF IInv, TypeOK, Crash
<1> QED BY <1>1, Frame DEF Crash

LEMMA MainStep ==
    ASSUME IInv, Main
    PROVE  IInv'
<1> USE DEF IInv
<1>1. CASE SpawnInput
  BY <1>1 DEF SpawnInput, TypeOK, Phases, AcceptSerial, MainPcs, InputPcs
<1>2. CASE Construct
  BY <1>2 DEF Construct, TypeOK, Phases, AcceptSerial, MainPcs
<1>3. CASE Listen
  <2>1. CASE Crash("bind") BY <2>1, CrashStep DEF Crashes
  <2>2. CASE ~Crash("bind")
    BY <1>3, <2>2 DEF Listen, TypeOK, Phases, AcceptSerial, Handling, MainPcs
  <2> QED BY <2>1, <2>2
<1>4. CASE StartThreads
  BY <1>4 DEF StartThreads, TypeOK, Phases, AcceptSerial, Handling, MainPcs, IoPcs
<1>5. CASE JoinThreads
  BY <1>5 DEF JoinThreads, TypeOK, Phases, AcceptSerial, MainPcs
<1>6. CASE JoinInput
  BY <1>6 DEF JoinInput, TypeOK, Phases, AcceptSerial, MainPcs
<1> QED BY <1>1, <1>2, <1>3, <1>4, <1>5, <1>6 DEF Main

LEMMA InputStep ==
    ASSUME IInv, UserTypesStop \/ InputThread
    PROVE  IInv'
<1>1. CASE UserTypesStop
  <2>1. TypeOK' BY <1>1 DEF UserTypesStop, IInv, TypeOK
  <2> QED BY <1>1, <2>1, Frame DEF UserTypesStop
<1>2. CASE ReadStop
  <2>1. TypeOK' BY <1>2 DEF ReadStop, IInv, TypeOK, InputPcs
  <2> QED BY <1>2, <2>1, Frame DEF ReadStop
<1>3. CASE Stop
  <2>1. CASE Crash("null") BY <2>1, CrashStep DEF Crashes
  <2>2. CASE ~Crash("null")
    <3>1. TypeOK' BY <1>3, <2>2 DEF Stop, IInv, TypeOK, InputPcs
    <3> QED BY <1>3, <2>2, <3>1, Frame DEF Stop
  <2> QED BY <2>1, <2>2
<1> QED BY <1>1, <1>2, <1>3 DEF InputThread

\* An io thread that has work to do belongs to the time when main joins it.
LEMMA WorksInJoin ==
    ASSUME IInv, NEW t \in Threads, io[t] \notin {"none", "ended"}
    PROVE  main = "join"
BY DEF IInv, TypeOK, Phases, MainPcs

\* A thread that enters the accept handler takes the outstanding accept with it.
LEMMA Enter ==
    ASSUME IInv, NEW t \in Threads, io[t] = "idle", accepting, TypeOK',
           io' = [io EXCEPT ![t] = "check"], accepting' = FALSE, main' = main
    PROVE  IInv'
<1>1. main = "join" BY WorksInJoin
<1>2. \A u \in Threads : ~Handling(u) BY <1>1 DEF IInv, AcceptSerial
<1>3. io \in [Threads -> IoPcs] BY DEF IInv, TypeOK
<1>4. \A u \in Threads : Handling(u)' <=> u = t
  BY <1>2, <1>3 DEF Handling
<1>5. AcceptSerial' BY <1>4 DEF AcceptSerial
<1>6. Phases' BY <1>1, <1>3 DEF IInv, Phases
<1> QED BY <1>5, <1>6 DEF IInv

\* A thread that leaves it starts the next accept.
LEMMA LeaveStep ==
    ASSUME IInv, NEW t \in Threads, Handling(t), Leave(t), TypeOK', main' = main
    PROVE  IInv'
<1>1. main = "join" BY WorksInJoin DEF Handling
<1>2. \A u \in Threads : Handling(u) <=> u = t BY <1>1 DEF IInv, AcceptSerial
<1>3. io \in [Threads -> IoPcs] BY DEF IInv, TypeOK
<1>4. \A u \in Threads : ~Handling(u)'
  BY <1>2, <1>3 DEF Handling, Leave
<1>5. AcceptSerial' BY <1>4 DEF AcceptSerial, Leave
<1>6. Phases' BY <1>1, <1>3 DEF IInv, Phases, Leave
<1> QED BY <1>5, <1>6 DEF IInv

\* Other steps of an io thread move it between states outside the handler, or
\* between states inside it.
LEMMA MoveStep ==
    ASSUME IInv, NEW t \in Threads, NEW s \in IoPcs \ {"none"}, main = "join",
           io' = [io EXCEPT ![t] = s], Handling(t) <=> s \in {"check", "drop"},
           TypeOK', UNCHANGED <<main, accepting>>
    PROVE  IInv'
<1>1. io \in [Threads -> IoPcs] BY DEF IInv, TypeOK
<1>2. \A u \in Threads : Handling(u)' <=> Handling(u)
  BY <1>1 DEF Handling
<1>3. AcceptSerial' BY <1>2 DEF IInv, AcceptSerial
<1>4. Phases' BY <1>1 DEF IInv, Phases
<1> QED BY <1>3, <1>4 DEF IInv

LEMMA IoStep ==
    ASSUME IInv, NEW t \in Threads, IoThread(t)
    PROVE  IInv'
<1> USE DEF IoPcs
<1>0. TypeOK BY DEF IInv
<1>1. CASE AcceptFails(t)
  <2>1. TypeOK' BY <1>0, <1>1 DEF AcceptFails, TypeOK
  <2> QED BY <1>1, <2>1, Enter DEF AcceptFails, Idle
<1>2. ASSUME NEW c \in Clients, Accepted(t, c) PROVE IInv'
  <2>1. TypeOK' BY <1>0, <1>2 DEF Accepted, TypeOK, ClientStates
  <2> QED BY <1>2, <2>1, Enter DEF Accepted, Idle
<1>3. CASE HandleError(t)
  <2>1. TypeOK' BY <1>0, <1>3 DEF HandleError, Leave, TypeOK
  <2> QED BY <1>3, <2>1, LeaveStep DEF HandleError, Handling
<1>4. CASE HandleConnection(t)
  <2>0. Handling(t) BY <1>4 DEF HandleConnection, Handling
  <2>1. CASE Crash("endpoint") BY <2>1, CrashStep DEF Crashes
  <2>2. CASE ~Crash("endpoint") /\ check_access(peer[t])
    <3>1. Leave(t) /\ UNCHANGED main BY <1>4, <2>2 DEF HandleConnection
    <3>2. TypeOK' BY <1>0, <1>4, <2>2 DEF HandleConnection, Leave, TypeOK, ClientStates
    <3> QED BY <2>0, <3>1, <3>2, LeaveStep
  <2>3. CASE ~Crash("endpoint") /\ ~check_access(peer[t])
    <3>1. io' = [io EXCEPT ![t] = "drop"] /\ UNCHANGED <<main, accepting>>
      BY <1>4, <2>3 DEF HandleConnection
    <3>2. TypeOK' BY <1>0, <1>4, <2>3 DEF HandleConnection, TypeOK
    <3>3. main = "join" BY <2>0, WorksInJoin DEF Handling
    <3> QED BY <2>0, <3>1, <3>2, <3>3, MoveStep
  <2> QED BY <2>1, <2>2, <2>3
<1>5. CASE Drop(t)
  <2>0. Handling(t) BY <1>5 DEF Drop, Handling
  <2>1. CASE Crash("endpoint") BY <2>1, CrashStep DEF Crashes
  <2>2. CASE ~Crash("endpoint")
    <3>1. Leave(t) /\ UNCHANGED main BY <1>5, <2>2 DEF Drop
    <3>2. TypeOK' BY <1>0, <1>5, <2>2 DEF Drop, Leave, TypeOK, ClientStates
    <3> QED BY <2>0, <3>1, <3>2, LeaveStep
  <2> QED BY <2>1, <2>2
<1>6. CASE SessionBlocks(t)
  <2>1. TypeOK' BY <1>0, <1>6 DEF SessionBlocks, TypeOK
  <2>2. main = "join" BY <1>6, WorksInJoin DEF SessionBlocks, Idle
  <2> QED BY <1>6, <2>1, <2>2, MoveStep DEF SessionBlocks, Idle, Handling
<1>7. CASE SessionThrows(t)
  BY <1>7, CrashStep DEF SessionThrows, Crashes
<1>8. CASE Unblocked(t)
  <2>1. TypeOK' BY <1>0, <1>8 DEF Unblocked, TypeOK
  <2>2. main = "join" BY <1>8, WorksInJoin DEF Unblocked
  <2> QED BY <1>8, <2>1, <2>2, MoveStep DEF Unblocked, Handling
<1>9. CASE RunReturns(t)
  <2>1. TypeOK' BY <1>0, <1>9 DEF RunReturns, TypeOK
  <2>2. main = "join" BY <1>9, WorksInJoin DEF RunReturns
  <2> QED BY <1>9, <2>1, <2>2, MoveStep DEF RunReturns, Handling
<1>10. CASE SignalHandled(t)
  <2>1. TypeOK' BY <1>0, <1>10 DEF SignalHandled, TypeOK
  <2> QED BY <1>10, <2>1, Frame DEF SignalHandled
<1> QED BY <1>1, <1>2, <1>3, <1>4, <1>5, <1>6, <1>7, <1>8, <1>9, <1>10 DEF IoThread, AcceptLoop

LEMMA ClientStep ==
    ASSUME IInv, NEW c \in Clients, Connects(c) \/ Resets(c)
    PROVE  IInv'
<1>1. TypeOK' BY DEF Connects, Resets, IInv, TypeOK, ClientStates
<1> QED BY <1>1, Frame DEF Connects, Resets

LEMMA SignalStep ==
    ASSUME IInv, Signal
    PROVE  IInv'
<1>1. CASE Crash("signal") BY <1>1, CrashStep DEF Crashes
<1>2. CASE ~Crash("signal")
  <2>1. TypeOK' BY <1>2 DEF Signal, IInv, TypeOK
  <2> QED BY <1>2, <2>1, Frame DEF Signal
<1> QED BY <1>1, <1>2

LEMMA Invariance == Spec => []IInv
<1>1. IInv /\ [Next]_vars => IInv'
  <2> SUFFICES ASSUME IInv, [Next]_vars PROVE IInv'
    OBVIOUS
  <2>1. CASE UNCHANGED vars
    <3>1. TypeOK' BY <2>1 DEF vars, IInv, TypeOK
    <3> QED BY <2>1, <3>1, Frame DEF vars
  <2>2. CASE Next
    BY <2>1, <2>2, MainStep, InputStep, IoStep, ClientStep, SignalStep DEF Next, Terminated
  <2> QED BY <2>1, <2>2
<1> QED BY <1>1, InitIInv, PTL DEF Spec

\* However many io threads run the accept loop, exactly one accept is outstanding
\* or one thread is inside its handler (http_server::accept).
THEOREM OneAccept == Spec => []AcceptSerial
BY Invariance, PTL DEF IInv

\* No thread runs the accept handler, which refers to a local variable of
\* http_server::run, before run() has started its threads or after it has returned.
THEOREM AcceptorOutlivesHandlers == Spec => []AcceptorAlive
<1>1. IInv => AcceptorAlive
  BY WorksInJoin DEF AcceptorAlive, Handling
<1> QED BY <1>1, Invariance, PTL

\* The variables of the service keep their types.
THEOREM ServiceTypeCorrect == Spec => []TypeOK
BY Invariance, PTL DEF IInv

-----------------------------------------------------------------------------
(* What ends the service.                                                  *)

\* The accept loop is work: a context with threads that are running never runs out.
LEMMA AlwaysWork ==
    ASSUME IInv, main = "join"
    PROVE  ~OutOfWork
BY DEF IInv, AcceptSerial, Handling, OutOfWork

\* Io threads and input_thr end after stop() has been called; main after them.
Ends ==
    /\ input = "done" => stopped
    /\ \A t \in Threads : io[t] = "ended" => stopped
    /\ main = "exit" => input = "done"

LEMMA EndsStep ==
    ASSUME IInv, Ends, [Next]_vars
    PROVE  Ends'
<1> USE DEF Ends
<1>0. io \in [Threads -> IoPcs] BY DEF IInv, TypeOK
<1>1. CASE UNCHANGED <<main, input, stopped, io>>
  BY <1>1
<1>2. CASE Main
  BY <1>0, <1>2 DEF Main, SpawnInput, Construct, Listen, StartThreads, JoinThreads, JoinInput,
     Running, Crash
<1>3. CASE InputThread
  BY <1>3 DEF InputThread, ReadStop, Stop, Crash, Running
<1>4. ASSUME NEW t \in Threads, IoThread(t) PROVE Ends'
  <2>1. CASE RunReturns(t)
    <3>1. main = "join" BY <2>1, WorksInJoin DEF RunReturns
    <3>2. stopped BY <2>1, <3>1, AlwaysWork DEF RunReturns
    <3> QED BY <2>1, <3>2 DEF RunReturns
  <2>2. CASE ~RunReturns(t)
    <3>1. UNCHANGED <<main, input, stopped>>
      BY <1>4, <2>2 DEF IoThread, AcceptLoop, AcceptFails, Accepted, HandleError, HandleConnection,
         Drop, SessionBlocks, SessionThrows, Unblocked, SignalHandled, Crash
    <3>2. \/ UNCHANGED io
          \/ \E s \in IoPcs \ {"ended"} : io' = [io EXCEPT ![t] = s]
      BY <1>4, <2>2 DEF IoThread, AcceptLoop, AcceptFails, Accepted, HandleError, HandleConnection,
         Drop, SessionBlocks, SessionThrows, Unblocked, SignalHandled, Crash, Leave, IoPcs
    <3> QED BY <1>0, <3>1, <3>2
  <2> QED BY <2>1, <2>2
<1>5. CASE UserTypesStop \/ Signal \/ \E c \in Clients : Connects(c) \/ Resets(c)
  BY <1>1, <1>5 DEF UserTypesStop, Signal, Crash, Connects, Resets
<1> QED BY <1>1, <1>2, <1>3, <1>4, <1>5 DEF Next, Terminated, vars

\* However many io threads there are, as long as there is one, http_server::run
\* returns only after stop(); and main only exits after it.
THEOREM OnlyStopEnds == Spec => []ServesUntilStopped
<1>1. Init => Ends
  BY DEF Init, Ends
<1>2. IInv /\ Ends /\ [Next]_vars => Ends'
  BY EndsStep
<1>3. IInv /\ Ends => ServesUntilStopped
  BY DEF IInv, Phases, Ends, ServesUntilStopped
<1> QED BY <1>1, <1>2, <1>3, Invariance, PTL DEF Spec

-----------------------------------------------------------------------------
(* What brings the service down.                                           *)

\* server is set before run() is called, and the accept handler deals with a
\* connection that has been accepted and neither refused nor given a session.
Owned ==
    /\ server <=> main \notin {"spawn", "construct"}
    /\ \A t \in Threads : io[t] = "drop" => peer[t] # NoClient
    /\ \A t \in Threads : ~Handling(t) => peer[t] = NoClient
    /\ \A t \in Threads : Handling(t) /\ peer[t] # NoClient => client[peer[t]] = "accepted"

LEMMA OwnedStep ==
    ASSUME IInv, Owned, [Next]_vars
    PROVE  Owned'
<1> USE DEF Owned
<1>0. /\ io \in [Threads -> IoPcs] /\ peer \in [Threads -> Clients \cup {NoClient}]
      /\ client \in [Clients -> ClientStates] /\ main \in MainPcs
  BY DEF IInv, TypeOK
<1>1. CASE UNCHANGED <<main, server, io, peer, client>>
  BY <1>1 DEF Handling
<1>2. CASE Main
  <2>1. CASE StartThreads
    <3>1. \A t \in Threads : peer[t] = NoClient
      BY <2>1 DEF StartThreads, IInv, Phases, Handling
    <3> QED BY <2>1, <3>1 DEF StartThreads, Handling
  <2>2. CASE ~StartThreads
    <3>1. UNCHANGED <<io, peer, client>>
      BY <1>2, <2>2 DEF Main, SpawnInput, Construct, Listen, JoinThreads, JoinInput, Crash
    <3>2. server' <=> main' \notin {"spawn", "construct"}
      BY <1>2, <2>2 DEF Main, SpawnInput, Construct, Listen, JoinThreads, JoinInput, Crash
    <3> QED BY <3>1, <3>2 DEF Handling
  <2> QED BY <2>1, <2>2
<1>3. CASE InputThread \/ UserTypesStop \/ Signal \/ \E c \in Clients : Resets(c)
  BY <1>1, <1>3 DEF InputThread, ReadStop, Stop, Crash, UserTypesStop, Signal, Resets
<1>4. ASSUME NEW c \in Clients, Connects(c) PROVE Owned'
  <2>1. UNCHANGED <<main, server, io, peer>> /\ client[c] = "away"
        /\ client' = [client EXCEPT ![c] = "waiting"]
    BY <1>4 DEF Connects
  <2> QED BY <1>0, <2>1 DEF Handling
<1>5. ASSUME NEW t \in Threads, IoThread(t) PROVE Owned'
  <2>0. UNCHANGED <<main, server>>
    BY <1>5 DEF IoThread, AcceptLoop, AcceptFails, Accepted, HandleError, HandleConnection,
       Drop, SessionBlocks, SessionThrows, Unblocked, RunReturns, SignalHandled, Crash
  <2>1. ASSUME NEW c \in Clients, Accepted(t, c) PROVE Owned'
    <3>1. \A u \in Threads : ~Handling(u)
      BY <2>1, WorksInJoin DEF Accepted, Idle, IInv, AcceptSerial
    <3>2. \A u \in Threads \ {t} : ~Handling(u)' /\ io'[u] = io[u] /\ peer'[u] = NoClient
      BY <1>0, <2>1, <3>1 DEF Accepted, Handling
    <3>3. io'[t] = "check" /\ peer'[t] = c /\ client'[c] = "accepted"
      BY <1>0, <2>1 DEF Accepted
    <3> QED BY <2>0, <3>2, <3>3 DEF Handling
  <2>2. CASE AcceptFails(t)
    <3>1. peer' = peer /\ client' = client /\ io' = [io EXCEPT ![t] = "check"]
      BY <2>2 DEF AcceptFails
    <3>2. peer[t] = NoClient
      BY <2>2 DEF AcceptFails, Idle, Handling
    <3> QED BY <1>0, <2>0, <3>1, <3>2 DEF Handling
  <2>3. CASE Handling(t) /\ Leave(t)
    <3>1. \A u \in Threads : ~Handling(u)'
      <4>1. \A u \in Threads : Handling(u) <=> u = t
        BY <2>3, WorksInJoin DEF Handling, IInv, AcceptSerial
      <4> QED BY <1>0, <2>3, <4>1 DEF Handling, Leave
    <3>2. \A u \in Threads : peer'[u] = NoClient
      <4>1. \A u \in Threads : Handling(u) <=> u = t
        BY <2>3, WorksInJoin DEF Handling, IInv, AcceptSerial
      <4> QED BY <1>0, <2>3, <4>1 DEF Leave
    <3> QED BY <2>0, <3>1, <3>2 DEF Handling
  <2>4. CASE HandleConnection(t) /\ ~Leave(t) /\ ~Crash("endpoint")
    <3>1. /\ peer[t] # NoClient /\ io[t] = "check" /\ io' = [io EXCEPT ![t] = "drop"]
          /\ peer' = peer /\ client' = client
      BY <2>4 DEF HandleConnection
    <3> QED BY <1>0, <2>0, <3>1 DEF Handling
  <2>5. ASSUME NEW s \in {"idle", "blocked", "ended"}, ~Handling(t),
               io' = [io EXCEPT ![t] = s], UNCHANGED <<peer, client>>
        PROVE  Owned'
    BY <1>0, <2>0, <2>5 DEF Handling
  <2>6. CASE HandleError(t)
    BY <2>3, <2>6 DEF HandleError, Handling
  <2>7. CASE HandleConnection(t)
    BY <1>1, <2>3, <2>4, <2>7 DEF HandleConnection, Handling, Crash
  <2>8. CASE Drop(t)
    BY <1>1, <2>3, <2>8 DEF Drop, Handling, Crash
  <2>9. CASE SessionBlocks(t) \/ Unblocked(t) \/ RunReturns(t)
    BY <2>5, <2>9 DEF SessionBlocks, Unblocked, RunReturns, Idle, Handling
  <2>10. CASE SessionThrows(t) \/ SignalHandled(t)
    BY <1>1, <2>10 DEF SessionThrows, SignalHandled, Crash
  <2> QED BY <1>5, <2>1, <2>2, <2>6, <2>7, <2>8, <2>9, <2>10 DEF IoThread, AcceptLoop
<1> QED BY <1>1, <1>2, <1>3, <1>4, <1>5 DEF Next, Terminated, vars

LEMMA CrashBecause ==
    ASSUME IInv, Owned, Next, crash = "none", crash' # "none"
    PROVE  OnlyClientsCrash'
<1>1. UNCHANGED <<main, io, peer, client, gone, server>>
  BY DEF Next, Main, SpawnInput, Construct, Listen, StartThreads, JoinThreads, JoinInput,
     UserTypesStop, InputThread, ReadStop, Stop, IoThread, AcceptLoop, AcceptFails, Accepted,
     HandleError, HandleConnection, Drop, SessionBlocks, SessionThrows, Unblocked, RunReturns,
     SignalHandled, Connects, Resets, Signal, Terminated, Crash, vars
<1>2. CASE Main \/ InputThread \/ UserTypesStop \/ Signal \/ Terminated
           \/ \E c \in Clients : Connects(c) \/ Resets(c)
  BY <1>1, <1>2 DEF Main, SpawnInput, Construct, Listen, StartThreads, JoinThreads, JoinInput,
     UserTypesStop, InputThread, ReadStop, Stop, Connects, Resets, Signal, Terminated, Crash, vars,
     Owned, OnlyClientsCrash
<1>3. ASSUME NEW t \in Threads, IoThread(t) PROVE OnlyClientsCrash'
  <2>1. CASE HandleConnection(t) \/ Drop(t)
    <3>1. /\ peer[t] \in gone /\ crash' = "endpoint" /\ Handling(t) /\ peer[t] # NoClient
      BY <2>1 DEF HandleConnection, Drop, Crash, Handling, Owned
    <3>2. client[peer[t]] = "accepted" BY <3>1 DEF Owned
    <3> QED BY <1>1, <3>1, <3>2 DEF OnlyClientsCrash
  <2>2. CASE SessionThrows(t)
    BY <1>1, <2>2 DEF SessionThrows, Crash, OnlyClientsCrash
  <2> QED BY <1>3, <2>1, <2>2 DEF IoThread, AcceptLoop, AcceptFails, Accepted, HandleError,
        SessionBlocks, Unblocked, RunReturns, SignalHandled
<1> QED BY <1>2, <1>3 DEF Next

\* While http_server::run serves, the process ends otherwise than through main only
\* when a client reset its connection before the accept handler had dealt with it, or
\* a session threw: stop() then goes through a pointer that is set, and a signal is
\* handled.
THEOREM OnlyClientsBringDown == Spec => []OnlyClientsCrash
<1>1. Init => Owned /\ OnlyClientsCrash
  BY DEF Init, Owned, OnlyClientsCrash, Handling
<1>2. IInv /\ Owned /\ [Next]_vars => Owned'
  BY OwnedStep
<1>3. IInv /\ Owned /\ OnlyClientsCrash /\ [Next]_vars => OnlyClientsCrash'
  <2> SUFFICES ASSUME IInv, Owned, OnlyClientsCrash, [Next]_vars PROVE OnlyClientsCrash' OBVIOUS
  <2>1. CASE UNCHANGED vars BY <2>1 DEF vars, OnlyClientsCrash
  <2>2. CASE Next /\ crash # "none"
    <3>1. UNCHANGED vars
      BY <2>2 DEF Next, Main, SpawnInput, Construct, Listen, StartThreads, JoinThreads, JoinInput,
         UserTypesStop, InputThread, ReadStop, Stop, IoThread, AcceptLoop, AcceptFails, Accepted,
         HandleError, HandleConnection, Drop, SessionBlocks, SessionThrows, Unblocked, RunReturns,
         SignalHandled, Connects, Resets, Signal, Terminated, Idle, Running
    <3> QED BY <2>1, <3>1
  <2>3. CASE Next /\ crash = "none" /\ crash' # "none" BY <2>3, CrashBecause
  <2>4. CASE crash' = "none" BY <2>4 DEF OnlyClientsCrash
  <2> QED BY <2>1, <2>2, <2>3, <2>4
<1> QED BY <1>1, <1>2, <1>3, Invariance, PTL DEF Spec
=============================================================================
