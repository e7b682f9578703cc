---------------------- MODULE HttpJsonRpcRequestProofs ----------------------
(***************************************************************************)
(* Proofs about HttpJsonRpcRequest, for plain and https calls alike and    *)
(* for any number of timer threads.                                        *)
(***************************************************************************)
EXTENDS HttpJsonRpcRequest, TLAPS

\* While an operation is outstanding no handler of the chain is running.
ChainSequential == op # "none" => io = "none"

\* on_request_timeout runs on exactly one thread of m_timer, which holds
\* m_locker; m_handler stays set meanwhile.
TimerOwned ==
    /\ tpc # "none" => tHandler /\ \E t \in TimerThreads : tThr[t] = "running"
    /\ \A t \in TimerThreads : tThr[t] = "running" => tpc # "none"
    /\ \A t, u \in TimerThreads : tThr[t] = "running" /\ tThr[u] = "running" => t = u

ConnectTimerOwned ==
    /\ cpc # "none" => cHandler /\ \E t \in ConnectThreads : cThr[t] = "running"
    /\ \A t \in ConnectThreads : cThr[t] = "running" => cpc # "none"

\* m_timer is armed only from on_connect to the first stop() after it, and
\* m_connect_timer only while connecting.
TimerArmed ==
    tHandler => io \in {"send", "err_timer"} \/ op \in {"handshake", "write", "read"}

ConnectTimerArmed == cHandler => io = "async_connect" \/ op = "connect"

\* A thread of m_connect_timer that has run its handler leaves no handler behind,
\* and m_connect_timer is started once.
ConnectTimerOnce ==
    /\ io = "idle" \/ op = "resolve" => \A t \in ConnectThreads : cThr[t] = "none"
    /\ cHandler => \A t \in ConnectThreads : cThr[t] # "ran"

\* m_callback is set from execute_async until it is cleared after its one call.
CallbackBooks ==
    /\ io = "idle" => calls = 0 /\ ~m_callback /\ op = "none"
    /\ io # "idle" /\ calls = 0 => m_callback
    /\ calls = 1 /\ m_callback => io = "clear" \/ tpc = "clear"
    /\ io = "clear" \/ tpc = "clear" => calls = 1

Protocol ==
    /\ ChainSequential
    /\ TimerOwned /\ ConnectTimerOwned
    /\ TimerArmed /\ ConnectTimerArmed
    /\ ConnectTimerOnce /\ RearmIsInert
    /\ CallbackBooks

IInv == TypeOK /\ Protocol

\* TypeOK falls into three parts that are proved separately: the timers, the
\* Boolean variables, and the rest.
Timers   == T!TypeOK /\ C!TypeOK
Booleans ==
    /\ m_use_ssl \in BOOLEAN
    /\ m_callback \in BOOLEAN /\ sockOpen \in BOOLEAN /\ established \in BOOLEAN
    /\ peerGone \in BOOLEAN /\ alive \in BOOLEAN

-----------------------------------------------------------------------------
USE DEF chain, call, socket, timer, connect

\* The initial state satisfies the inductive invariant.
LEMMA InitIInv == Init => IInv
<1> SUFFICES ASSUME Init PROVE IInv
  OBVIOUS
<1> USE DEF Init, T!Init, C!Init
<1>1. Timers
  BY DEF Timers, T!TypeOK, C!TypeOK, T!ThreadStates, C!ThreadStates
<1>2. Booleans
  BY DEF Booleans
<1>3. TypeOK
  BY <1>1, <1>2 DEF TypeOK, Timers, Booleans, Ops, Codes, IoPcs, TimeoutPcs,
                    ConnectTimeoutPcs, Results
<1>4. ChainSequential /\ TimerOwned /\ ConnectTimerOwned
  BY DEF ChainSequential, TimerOwned, ConnectTimerOwned
<1>5. TimerArmed /\ ConnectTimerArmed /\ ConnectTimerOnce
  BY DEF TimerArmed, ConnectTimerArmed, ConnectTimerOnce
<1>6. RearmIsInert /\ CallbackBooks
  BY DEF RearmIsInert, CallbackBooks
<1> QED
  BY <1>3, <1>4, <1>5, <1>6 DEF IInv, Protocol

\* The threads of both timers stay in their states.
LEMMA NextTimers == IInv /\ [Next]_vars => Timers'
<1> SUFFICES ASSUME IInv, [Next]_vars PROVE Timers'
  OBVIOUS
<1> USE DEF IInv, Timers, TypeOK, T!TypeOK, C!TypeOK, T!ThreadStates,
        C!ThreadStates
<1>1. CASE execute_async
  BY <1>1 DEF execute_async, Begin
<1>2. CASE on_resolve
  BY <1>2 DEF on_resolve, Handling, Fail, C!start, C!run_once
<1>3. CASE AsyncConnect
  BY <1>3 DEF AsyncConnect
<1>4. CASE on_connect
  BY <1>4 DEF on_connect, Handling, Fail, C!stop, C!LockFree, T!start,
          T!run_once
<1>5. CASE Send
  BY <1>5 DEF Send, Begin
<1>6. CASE on_handshake
  BY <1>6 DEF on_handshake, Handling, Fail, Begin
<1>7. CASE on_write
  BY <1>7 DEF on_write, Handling, Fail, Begin
<1>8. CASE on_read
  BY <1>8 DEF on_read, Handling, Fail, T!stop, T!LockFree
<1>9. CASE Parse
  BY <1>9 DEF Parse
<1>10. CASE ErrStopTimer
  BY <1>10 DEF ErrStopTimer, T!stop, T!LockFree
<1>11. CASE ErrStopConnectTimer
  BY <1>11 DEF ErrStopConnectTimer, C!stop, C!LockFree
<1>12. CASE ErrClose
  BY <1>12 DEF ErrClose
<1>13. CASE ErrResult
  BY <1>13 DEF ErrResult
<1>14. CASE IoCallback
  BY <1>14 DEF IoCallback, InvokeCallback
<1>15. CASE IoClear
  BY <1>15 DEF IoClear, ClearCallback
<1>16. ASSUME NEW t \in TimerThreads, TimerThread(t) PROVE Timers'
  BY <1>16 DEF TimerThread, T!GetFuture, T!Expire, T!FireStopped, T!Fire,
          T!LockFree
<1>17. CASE TimeoutStopConnect
  BY <1>17 DEF TimeoutStopConnect, C!stop, C!LockFree
<1>18. CASE TimeoutResult
  BY <1>18 DEF TimeoutResult
<1>19. CASE TimeoutCallback
  BY <1>19 DEF TimeoutCallback, InvokeCallback
<1>20. CASE TimeoutClear
  BY <1>20 DEF TimeoutClear, ClearCallback
<1>21. CASE TimeoutClose
  BY <1>21 DEF TimeoutClose
<1>22. CASE TimeoutReturn
  BY <1>22 DEF TimeoutReturn, T!Return
<1>23. ASSUME NEW t \in ConnectThreads, ConnectTimerThread(t) PROVE Timers'
  BY <1>23 DEF ConnectTimerThread, C!GetFuture, C!Expire, C!FireStopped,
          C!Fire, C!LockFree
<1>24. CASE ConnectTimeoutCancel
  BY <1>24 DEF ConnectTimeoutCancel
<1>25. CASE ConnectTimeoutRearm
  BY <1>25 DEF ConnectTimeoutRearm, C!run_once
<1>26. CASE ConnectTimeoutReturn
  BY <1>26 DEF ConnectTimeoutReturn, C!Return
<1>27. CASE Complete
  BY <1>27 DEF Complete, Endings
<1>28. CASE PeerCloses
  BY <1>28 DEF PeerCloses
<1>29. CASE Destroy
  BY <1>29 DEF Destroy, Referenced, T!Destroyed, C!Destroyed, T!LockFree,
          C!LockFree
<1>30. CASE Terminated \/ UNCHANGED vars
  BY <1>30 DEF Terminated, vars
<1> QED
  BY <1>1, <1>2, <1>3, <1>4, <1>5, <1>6, <1>7, <1>8, <1>9, <1>10, <1>11,
     <1>12, <1>13, <1>14, <1>15, <1>16, <1>17, <1>18, <1>19, <1>20, <1>21,
     <1>22, <1>23, <1>24, <1>25, <1>26, <1>27, <1>28, <1>29, <1>30 DEF Next,
     IoStep, TimeoutStep, ConnectTimeoutStep

\* The Boolean variables stay Boolean.
LEMMA NextBooleans == IInv /\ [Next]_vars => Booleans'
<1> SUFFICES ASSUME IInv, [Next]_vars PROVE Booleans'
  OBVIOUS
<1> USE DEF IInv, Booleans, TypeOK, T!TypeOK, C!TypeOK
<1>1. CASE execute_async
  BY <1>1 DEF execute_async, Begin
<1>2. CASE on_resolve
  BY <1>2 DEF on_resolve, Handling, Fail, C!start, C!run_once
<1>3. CASE AsyncConnect
  BY <1>3 DEF AsyncConnect
<1>4. CASE on_connect
  BY <1>4 DEF on_connect, Handling, Fail, C!stop, C!LockFree, T!start,
          T!run_once
<1>5. CASE Send
  BY <1>5 DEF Send, Begin
<1>6. CASE on_handshake
  BY <1>6 DEF on_handshake, Handling, Fail, Begin
<1>7. CASE on_write
  BY <1>7 DEF on_write, Handling, Fail, Begin
<1>8. CASE on_read
  BY <1>8 DEF on_read, Handling, Fail, T!stop, T!LockFree
<1>9. CASE Parse
  BY <1>9 DEF Parse
<1>10. CASE ErrStopTimer
  BY <1>10 DEF ErrStopTimer, T!stop, T!LockFree
<1>11. CASE ErrStopConnectTimer
  BY <1>11 DEF ErrStopConnectTimer, C!stop, C!LockFree
<1>12. CASE ErrClose
  BY <1>12 DEF ErrClose
<1>13. CASE ErrResult
  BY <1>13 DEF ErrResult
<1>14. CASE IoCallback
  BY <1>14 DEF IoCallback, InvokeCallback
<1>15. CASE IoClear
  BY <1>15 DEF IoClear, ClearCallback
<1>16. ASSUME NEW t \in TimerThreads, TimerThread(t) PROVE Booleans'
  BY <1>16 DEF TimerThread, T!GetFuture, T!Expire, T!FireStopped, T!Fire,
          T!LockFree
<1>17. CASE TimeoutStopConnect
  BY <1>17 DEF TimeoutStopConnect, C!stop, C!LockFree
<1>18. CASE TimeoutResult
  BY <1>18 DEF TimeoutResult
<1>19. CASE TimeoutCallback
  BY <1>19 DEF TimeoutCallback, InvokeCallback
<1>20. CASE TimeoutClear
  BY <1>20 DEF TimeoutClear, ClearCallback
<1>21. CASE TimeoutClose
  BY <1>21 DEF TimeoutClose
<1>22. CASE TimeoutReturn
  BY <1>22 DEF TimeoutReturn, T!Return
<1>23. ASSUME NEW t \in ConnectThreads, ConnectTimerThread(t) PROVE Booleans'
  BY <1>23 DEF ConnectTimerThread, C!GetFuture, C!Expire, C!FireStopped,
          C!Fire, C!LockFree
<1>24. CASE ConnectTimeoutCancel
  BY <1>24 DEF ConnectTimeoutCancel
<1>25. CASE ConnectTimeoutRearm
  BY <1>25 DEF ConnectTimeoutRearm, C!run_once
<1>26. CASE ConnectTimeoutReturn
  BY <1>26 DEF ConnectTimeoutReturn, C!Return
<1>27. CASE Complete
  BY <1>27 DEF Complete, Endings
<1>28. CASE PeerCloses
  BY <1>28 DEF PeerCloses
<1>29. CASE Destroy
  BY <1>29 DEF Destroy, Referenced, T!Destroyed, C!Destroyed, T!LockFree,
          C!LockFree
<1>30. CASE Terminated \/ UNCHANGED vars
  BY <1>30 DEF Terminated, vars
<1> QED
  BY <1>1, <1>2, <1>3, <1>4, <1>5, <1>6, <1>7, <1>8, <1>9, <1>10, <1>11,
     <1>12, <1>13, <1>14, <1>15, <1>16, <1>17, <1>18, <1>19, <1>20, <1>21,
     <1>22, <1>23, <1>24, <1>25, <1>26, <1>27, <1>28, <1>29, <1>30 DEF Next,
     IoStep, TimeoutStep, ConnectTimeoutStep

\* Every step keeps the type invariant; the bound on calls needs CallbackBooks.
LEMMA NextTypeOK == IInv /\ [Next]_vars => TypeOK'
<1> SUFFICES ASSUME IInv, [Next]_vars PROVE TypeOK'
  OBVIOUS
<1> USE NextTimers, NextBooleans DEF IInv, TypeOK, Timers, Booleans, Ops,
        Codes, IoPcs, TimeoutPcs, ConnectTimeoutPcs, Results
<1>1. CASE execute_async
  BY <1>1 DEF execute_async, Begin
<1>2. CASE on_resolve
  BY <1>2 DEF on_resolve, Handling, Fail, C!start, C!run_once
<1>3. CASE AsyncConnect
  BY <1>3 DEF AsyncConnect
<1>4. CASE on_connect
  BY <1>4 DEF on_connect, Handling, Fail, C!stop, C!LockFree, T!start,
          T!run_once
<1>5. CASE Send
  BY <1>5 DEF Send, Begin
<1>6. CASE on_handshake
  BY <1>6 DEF on_handshake, Handling, Fail, Begin
<1>7. CASE on_write
  BY <1>7 DEF on_write, Handling, Fail, Begin
<1>8. CASE on_read
  BY <1>8 DEF on_read, Handling, Fail, T!stop, T!LockFree
<1>9. CASE Parse
  BY <1>9 DEF Parse
<1>10. CASE ErrStopTimer
  BY <1>10 DEF ErrStopTimer, T!stop, T!LockFree
<1>11. CASE ErrStopConnectTimer
  BY <1>11 DEF ErrStopConnectTimer, C!stop, C!LockFree
<1>12. CASE ErrClose
  BY <1>12 DEF ErrClose
<1>13. CASE ErrResult
  BY <1>13 DEF ErrResult
<1>14. CASE IoCallback
  BY <1>14 DEF IoCallback, InvokeCallback, Protocol, CallbackBooks,
          ChainSequential, TimerOwned, TimerArmed
<1>15. CASE IoClear
  BY <1>15 DEF IoClear, ClearCallback
<1>16. ASSUME NEW t \in TimerThreads, TimerThread(t) PROVE TypeOK'
  BY <1>16 DEF TimerThread, T!GetFuture, T!Expire, T!FireStopped, T!Fire,
          T!LockFree
<1>17. CASE TimeoutStopConnect
  BY <1>17 DEF TimeoutStopConnect, C!stop, C!LockFree
<1>18. CASE TimeoutResult
  BY <1>18 DEF TimeoutResult
<1>19. CASE TimeoutCallback
  BY <1>19 DEF TimeoutCallback, InvokeCallback, Protocol, CallbackBooks,
          ChainSequential, TimerOwned, TimerArmed
<1>20. CASE TimeoutClear
  BY <1>20 DEF TimeoutClear, ClearCallback
<1>21. CASE TimeoutClose
  BY <1>21 DEF TimeoutClose
<1>22. CASE TimeoutReturn
  BY <1>22 DEF TimeoutReturn, T!Return
<1>23. ASSUME NEW t \in ConnectThreads, ConnectTimerThread(t) PROVE TypeOK'
  BY <1>23 DEF ConnectTimerThread, C!GetFuture, C!Expire, C!FireStopped,
          C!Fire, C!LockFree
<1>24. CASE ConnectTimeoutCancel
  BY <1>24 DEF ConnectTimeoutCancel
<1>25. CASE ConnectTimeoutRearm
  BY <1>25 DEF ConnectTimeoutRearm, C!run_once
<1>26. CASE ConnectTimeoutReturn
  BY <1>26 DEF ConnectTimeoutReturn, C!Return
<1>27. CASE Complete
  BY <1>27 DEF Complete, Endings
<1>28. CASE PeerCloses
  BY <1>28 DEF PeerCloses
<1>29. CASE Destroy
  BY <1>29 DEF Destroy, Referenced, T!Destroyed, C!Destroyed, T!LockFree,
          C!LockFree
<1>30. CASE Terminated \/ UNCHANGED vars
  BY <1>30 DEF Terminated, vars
<1> QED
  BY <1>1, <1>2, <1>3, <1>4, <1>5, <1>6, <1>7, <1>8, <1>9, <1>10, <1>11,
     <1>12, <1>13, <1>14, <1>15, <1>16, <1>17, <1>18, <1>19, <1>20, <1>21,
     <1>22, <1>23, <1>24, <1>25, <1>26, <1>27, <1>28, <1>29, <1>30 DEF Next,
     IoStep, TimeoutStep, ConnectTimeoutStep

\* Every step keeps the rest of the inductive invariant.
LEMMA NextProtocol == IInv /\ [Next]_vars => Protocol'
<1> SUFFICES ASSUME IInv, [Next]_vars PROVE Protocol'
  OBVIOUS
<1> USE DEF IInv, Protocol, TypeOK, T!TypeOK, C!TypeOK, ChainSequential,
        TimerOwned, ConnectTimerOwned, TimerArmed, ConnectTimerArmed,
        ConnectTimerOnce, RearmIsInert, CallbackBooks
<1>1. CASE execute_async
  BY <1>1 DEF execute_async, Begin
<1>2. CASE on_resolve
  BY <1>2 DEF on_resolve, Handling, Fail, C!start, C!run_once
<1>3. CASE AsyncConnect
  BY <1>3 DEF AsyncConnect
<1>4. CASE on_connect
  BY <1>4 DEF on_connect, Handling, Fail, C!stop, C!LockFree, T!start,
          T!run_once
<1>5. CASE Send
  BY <1>5 DEF Send, Begin
<1>6. CASE on_handshake
  BY <1>6 DEF on_handshake, Handling, Fail, Begin
<1>7. CASE on_write
  BY <1>7 DEF on_write, Handling, Fail, Begin
<1>8. CASE on_read
  BY <1>8 DEF on_read, Handling, Fail, T!stop, T!LockFree
<1>9. CASE Parse
  BY <1>9 DEF Parse
<1>10. CASE ErrStopTimer
  BY <1>10 DEF ErrStopTimer, T!stop, T!LockFree
<1>11. CASE ErrStopConnectTimer
  BY <1>11 DEF ErrStopConnectTimer, C!stop, C!LockFree
<1>12. CASE ErrClose
  BY <1>12 DEF ErrClose
<1>13. CASE ErrResult
  BY <1>13 DEF ErrResult
<1>14. CASE IoCallback
  BY <1>14 DEF IoCallback, InvokeCallback
<1>15. CASE IoClear
  BY <1>15 DEF IoClear, ClearCallback
<1>16. ASSUME NEW t \in TimerThreads, TimerThread(t) PROVE Protocol'
  BY <1>16 DEF TimerThread, T!GetFuture, T!Expire, T!FireStopped, T!Fire,
          T!LockFree
<1>17. CASE TimeoutStopConnect
  BY <1>17 DEF TimeoutStopConnect, C!stop, C!LockFree
<1>18. CASE TimeoutResult
  BY <1>18 DEF TimeoutResult
<1>19. CASE TimeoutCallback
  BY <1>19 DEF TimeoutCallback, InvokeCallback
<1>20. CASE TimeoutClear
  BY <1>20 DEF TimeoutClear, ClearCallback
<1>21. CASE TimeoutClose
  BY <1>21 DEF TimeoutClose
<1>22. CASE TimeoutReturn
  BY <1>22 DEF TimeoutReturn, T!Return
<1>23. ASSUME NEW t \in ConnectThreads, ConnectTimerThread(t) PROVE Protocol'
  BY <1>23 DEF ConnectTimerThread, C!GetFuture, C!Expire, C!FireStopped,
          C!Fire, C!LockFree
<1>24. CASE ConnectTimeoutCancel
  BY <1>24 DEF ConnectTimeoutCancel
<1>25. CASE ConnectTimeoutRearm
  BY <1>25 DEF ConnectTimeoutRearm, C!run_once
<1>26. CASE ConnectTimeoutReturn
  BY <1>26 DEF ConnectTimeoutReturn, C!Return
<1>27. CASE Complete
  BY <1>27 DEF Complete, Endings
<1>28. CASE PeerCloses
  BY <1>28 DEF PeerCloses
<1>29. CASE Destroy
  BY <1>29 DEF Destroy, Referenced, T!Destroyed, C!Destroyed, T!LockFree,
          C!LockFree
<1>30. CASE Terminated \/ UNCHANGED vars
  BY <1>30 DEF Terminated, vars
<1> QED
  BY <1>1, <1>2, <1>3, <1>4, <1>5, <1>6, <1>7, <1>8, <1>9, <1>10, <1>11,
     <1>12, <1>13, <1>14, <1>15, <1>16, <1>17, <1>18, <1>19, <1>20, <1>21,
     <1>22, <1>23, <1>24, <1>25, <1>26, <1>27, <1>28, <1>29, <1>30 DEF Next,
     IoStep, TimeoutStep, ConnectTimeoutStep

\* The inductive invariant holds in every reachable state.
LEMMA Invariance == Spec => []IInv
<1>1. IInv /\ [Next]_vars => IInv'
  BY NextTypeOK, NextProtocol DEF IInv
<1> QED
  BY InitIInv, <1>1, PTL DEF Spec

-----------------------------------------------------------------------------
\* Every variable of a request keeps its type; in particular m_callback() is
\* called at most once.
THEOREM TypeCorrect == Spec => []TypeOK
  BY Invariance, PTL DEF IInv

\* perform_callback and m_result need no lock: the chain and on_request_timeout
\* are never both inside them.
THEOREM ResultRaceFree == Spec => []NoResultRace
<1>1. IInv => NoResultRace
  BY DEF IInv, Protocol, ChainSequential, TimerOwned, TimerArmed, NoResultRace
<1> QED
  BY Invariance, <1>1, PTL

\* No timer thread drops the last reference to the request it is a member of.
THEOREM TimerNeverLastOwner == Spec => []TimerNotLastOwner
<1>1. IInv => TimerNotLastOwner
  BY DEF IInv, Protocol, TimerOwned, TimerArmed, ConnectTimerOwned,
         ConnectTimerArmed, TimerNotLastOwner
<1> QED
  BY Invariance, <1>1, PTL

\* on_connect_timeout never cancels anything but a connection attempt.
THEOREM CancelSafe == Spec => []CancelOnlyWhileConnecting
<1>1. IInv => CancelOnlyWhileConnecting
  BY DEF IInv, Protocol, ConnectTimerOwned, ConnectTimerArmed,
         CancelOnlyWhileConnecting
<1> QED
  BY Invariance, <1>1, PTL

\* However many threads m_connect_timer starts, one of them calls the handler.
THEOREM RearmInert == Spec => []RearmIsInert
  BY Invariance, PTL DEF IInv, Protocol

-----------------------------------------------------------------------------
\* Every step of the request is a Call, a Return or a stutter for its owner.
LEMMA StepRefines == IInv /\ IInv' /\ [Next]_vars => [A!Next]_(A!vars)
<1> SUFFICES ASSUME IInv, IInv', [Next]_vars PROVE [A!Next]_(A!vars)
  OBVIOUS
<1> USE DEF A!Next, A!vars, A!Call, A!Return
<1>1. CASE execute_async
  BY <1>1 DEF execute_async, IInv, Protocol, CallbackBooks
<1>2. CASE InvokeCallback /\ io # "idle" /\ io' # "idle"
  <2>1. calls = 0 /\ calls' = 1 /\ m_result \in Results
    BY <1>2 DEF InvokeCallback, IInv, TypeOK
  <2> QED
    BY <1>2, <2>1 DEF InvokeCallback
<1>3. CASE UNCHANGED <<calls, outcome>> /\ (io = "idle" <=> io' = "idle")
  BY <1>3
<1>4. IoCallback => \/ InvokeCallback /\ io # "idle" /\ io' # "idle"
                    \/ UNCHANGED <<calls, outcome>> /\ io # "idle" /\ io' # "idle"
  BY DEF IoCallback
<1>5. TimeoutCallback => \/ InvokeCallback /\ io # "idle" /\ io' # "idle"
                         \/ UNCHANGED <<calls, outcome>> /\ UNCHANGED io
  BY DEF TimeoutCallback, IInv, Protocol, TimerOwned, TimerArmed, CallbackBooks
<1>6. IoStep /\ ~execute_async /\ ~IoCallback
        => UNCHANGED <<calls, outcome>> /\ io # "idle" /\ io' # "idle"
  BY DEF IoStep, on_resolve, AsyncConnect, on_connect, Send, on_handshake,
         on_write, on_read, Parse, ErrStopTimer, ErrStopConnectTimer, ErrClose,
         ErrResult, IoClear, Handling, Fail, ClearCallback
<1>7. TimeoutStep /\ ~TimeoutCallback => UNCHANGED <<calls, outcome, io>>
  BY DEF TimeoutStep, TimerThread, TimeoutStopConnect, TimeoutResult,
         TimeoutClear, TimeoutClose, TimeoutReturn, ClearCallback
<1>8. ConnectTimeoutStep \/ Complete \/ PeerCloses \/ Destroy \/ Terminated
        \/ UNCHANGED vars => UNCHANGED <<calls, outcome, io>>
  BY DEF ConnectTimeoutStep, ConnectTimerThread, ConnectTimeoutCancel,
         ConnectTimeoutRearm, ConnectTimeoutReturn, Complete, PeerCloses,
         Destroy, Terminated, vars
<1> QED
  BY <1>1, <1>2, <1>3, <1>4, <1>5, <1>6, <1>7, <1>8 DEF Next

\* A request implements AsyncCall: after execute_async its owner sees at most one
\* outcome, whichever of answer, failure and time-out comes first.
THEOREM Refinement == Spec => RefinesAsyncCall
<1>1. Init => A!Init
  BY DEF Init, A!Init
<1> QED
  BY <1>1, StepRefines, Invariance, PTL DEF Spec, RefinesAsyncCall, A!Spec
=============================================================================
