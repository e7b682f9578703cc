-------------------------------- MODULE Timer --------------------------------
(***************************************************************************)
(* utils::Timer (task_handlers/utils.h, utils.cpp): a one-shot timer whose *)
(* every arming starts a detached std::thread that captures the Timer by   *)
(* reference.                                                              *)
(*                                                                         *)
(* m_locker is not a variable: stop() holds it within one step, so it is   *)
(* held across steps only by a thread that is running the handler.         *)
(***************************************************************************)
CONSTANT
    \* One identity per std::thread that run_once() may start.
    Threads

VARIABLES
    \* TRUE iff the std::function m_handler is not empty.  A handler bound to
    \* shared_from_this() keeps its owner alive.
    m_handler,
    \* Where each detached thread is:
    \*   none     not started           created  before m_promise.get_future()
    \*   waiting  in fut.wait_for()     expired  wait_for() has timed out
    \*   running  in m_handler(), holding m_locker
    \*   ran      returned from m_handler()
    \*   done     ended without having called the handler
    \*   wild     about to touch a Timer that has been destroyed
    thr

ThreadStates ==
    {"none", "created", "waiting", "expired", "running", "ran", "done", "wild"}

TypeOK == m_handler \in BOOLEAN /\ thr \in [Threads -> ThreadStates]

Init == m_handler = FALSE /\ thr = [t \in Threads |-> "none"]

\* m_locker can be taken.
LockFree == \A t \in Threads : thr[t] # "running"

\* The assignment to m_promise abandons the previous promise, which wakes a
\* thread that waits on its future with future_status::ready.
run_once(t) ==
    /\ thr[t] = "none"
    /\ thr' = [u \in Threads |-> CASE u = t              -> "created"
                                   [] thr[u] = "waiting" -> "done"
                                   [] OTHER              -> thr[u]]

start(t) == m_handler' = TRUE /\ run_once(t)

\* Mutant of stop: m_locker is not taken.
stopUnlocked == m_handler' = FALSE /\ UNCHANGED thr

stop == LockFree /\ m_handler' = FALSE /\ UNCHANGED thr

\* The thread of run_once(): get_future(), the time-out of wait_for(), the
\* test of m_handler under m_locker, and the return from the handler.
GetFuture(t) ==
    /\ thr[t] = "created"
    /\ thr' = [thr EXCEPT ![t] = "waiting"]
    /\ UNCHANGED m_handler

Expire(t) ==
    /\ thr[t] = "waiting"
    /\ thr' = [thr EXCEPT ![t] = "expired"]
    /\ UNCHANGED m_handler

Fire(t) ==
    /\ thr[t] = "expired" /\ LockFree /\ m_handler
    /\ thr' = [thr EXCEPT ![t] = "running"]
    /\ UNCHANGED m_handler

FireStopped(t) ==
    /\ thr[t] = "expired" /\ LockFree /\ ~m_handler
    /\ thr' = [thr EXCEPT ![t] = "done"]
    /\ UNCHANGED m_handler

\* Mutant of Return: the handler is left in place after the call.
ReturnKeepsHandler(t) ==
    /\ thr[t] = "running"
    /\ thr' = [thr EXCEPT ![t] = "ran"]
    /\ UNCHANGED m_handler

\* m_handler = nullptr after the call, then m_locker is released.
Return(t) ==
    /\ thr[t] = "running"
    /\ thr' = [thr EXCEPT ![t] = "ran"]
    /\ m_handler' = FALSE

\* ~Timer(): stop(), then the promise dies and wakes a waiting thread.  A
\* thread that has not reached its wait, or is past it, still holds a
\* reference to the destroyed object.
Destroyed ==
    /\ LockFree
    /\ m_handler' = FALSE
    /\ thr' = [t \in Threads |-> CASE thr[t] = "waiting"               -> "done"
                                   [] thr[t] \in {"created", "expired"} -> "wild"
                                   [] OTHER                            -> thr[t]]
=============================================================================
