---------------------------- MODULE ThreadCleanup ---------------------------
(***************************************************************************)
(* The programs whose main() creates a thread, sleeps, cancels it and      *)
(* joins it; the sleep makes no promise about where the thread is.         *)
(*   t_thread_cleanup.c: the thread allocates a buffer, locks the mutex,   *)
(*     pushes a cleanup handler that frees and unlocks, and waits for glob *)
(*     on a condition variable.  With an argument ("signal") main() does   *)
(*     not cancel it but signals and then sets glob, without the mutex.    *)
(*   t_pthread_cancel.c ("testcancel"), t_pthread_cancel2.c ("sleeper"):   *)
(*     the thread loops for ever over a cancellation point.                *)
(***************************************************************************)
EXTENDS PthreadSync, Integers

CONSTANT Modes          \* of "cancel", "signal", "testcancel", "sleeper"

VARIABLES
    mode,               \* fixed at start
    main,               \* where main() is
    thr,                \* where the thread is
    glob,
    buf,                \* the thread's buffer
    frees,              \* how often it was freed
    request,            \* is a cancellation request pending?
    result              \* what pthread_join() will report

sync == <<mtx, waiters>>
vars == <<sync, mode, main, thr, glob, buf, frees, request, result>>

Running == main \notin {"exit", "exit_fail", "crash"}
T == "thread"
Loops == {"testcancel", "sleeper"}          \* the threads without handler

Init ==
    /\ SyncInit
    /\ mode \in Modes
    /\ main = "create" /\ thr = "absent"
    /\ glob = 0
    /\ buf = "none" /\ frees = 0
    /\ request = FALSE
    /\ result = "none"

-----------------------------------------------------------------------------
(* main().                                                                  *)

Create ==
    /\ main = "create" /\ mode \notin Loops
    /\ \/ main' = "sleep" /\ thr' = "malloc"
       \/ main' = "exit_fail" /\ UNCHANGED thr
    /\ UNCHANGED <<sync, mode, glob, buf, frees, request, result>>

CreateLooper ==
    /\ main = "create" /\ mode = "sleeper"
    /\ \/ main' = "sleep" /\ thr' = "loop"
       \/ main' = "exit_fail" /\ UNCHANGED thr
    /\ UNCHANGED <<sync, mode, glob, buf, frees, request, result>>

\* t_pthread_cancel.c does not look at the result: what pthread_cancel() of
\* an identifier nobody set does, return an error or crash, is undefined.
CreateUnchecked ==
    /\ main = "create" /\ mode = "testcancel"
    /\ \/ main' = "sleep" /\ thr' = "loop"
       \/ main' \in {"exit_fail", "crash"} /\ UNCHANGED thr
    /\ UNCHANGED <<sync, mode, glob, buf, frees, request, result>>

\* sleep(3), the test of argc, and the message before the call.
Sleep ==
    /\ main = "sleep"
    /\ main' = "announce"
    /\ UNCHANGED <<sync, mode, thr, glob, buf, frees, request, result>>

Announce ==
    /\ main = "announce"
    /\ main' = IF mode = "signal" THEN "signal" ELSE "cancel"
    /\ UNCHANGED <<sync, mode, thr, glob, buf, frees, request, result>>

\* pthread_cancel() interrupts a thread blocked in pthread_cond_wait().
Cancel ==
    /\ main = "cancel"
    /\ request' = TRUE
    /\ waiters' = waiters \ {T}
    /\ main' = "join"
    /\ UNCHANGED <<mtx, mode, thr, glob, buf, frees, result>>

SignalCond ==
    /\ main = "signal"
    /\ CondSignal
    /\ main' = "set_glob"
    /\ UNCHANGED <<mode, thr, glob, buf, frees, request, result>>

SetGlob ==
    /\ main = "set_glob"
    /\ glob' = 1
    /\ main' = "join"
    /\ UNCHANGED <<sync, mode, thr, buf, frees, request, result>>

Join ==
    /\ main = "join"
    /\ thr = "done"
    /\ main' = "exit"
    /\ UNCHANGED <<sync, mode, thr, glob, buf, frees, request, result>>

Main == Create \/ CreateLooper \/ CreateUnchecked \/ Sleep \/ Announce
           \/ Cancel \/ SignalCond \/ SetGlob \/ Join

-----------------------------------------------------------------------------
(* threadFunc().  printf() may be a cancellation point as well; before the  *)
(* handler is pushed, acting on the request there leaks the buffer.         *)

\* pthread_testcancel(), or printf() and sleep(), acts on the request.
Loop ==
    /\ Running
    /\ thr = "loop" /\ request
    /\ thr' = "done" /\ result' = "canceled"
    /\ UNCHANGED <<sync, mode, main, glob, buf, frees, request>>

\* The result of malloc() is not tested; free(NULL) does nothing.
Malloc ==
    /\ Running
    /\ thr = "malloc"
    /\ buf' \in {"allocated", "null"}
    /\ thr' = "printf"
    /\ UNCHANGED <<sync, mode, main, glob, frees, request, result>>

Printf ==
    /\ Running
    /\ thr = "printf"
    /\ \/ thr' = "lock" /\ UNCHANGED <<buf, result>>
       \/ /\ request
          /\ buf' = IF buf = "allocated" THEN "leaked" ELSE buf
          /\ thr' = "done" /\ result' = "canceled"
    /\ UNCHANGED <<sync, mode, main, glob, frees, request>>

Lock ==
    /\ Running
    /\ thr = "lock"
    /\ MutexLock(T)
    /\ thr' = "push"
    /\ UNCHANGED <<mode, main, glob, buf, frees, request, result>>

\* pthread_cleanup_push(): from here on the handler is run by a cancellation.
Push ==
    /\ Running
    /\ thr = "push"
    /\ thr' = "check"
    /\ UNCHANGED <<sync, mode, main, glob, buf, frees, request, result>>

\* A thread that has cancellation disabled when it enters the wait.
CheckUncancelable ==
    /\ Running
    /\ thr = "check"
    /\ IF glob = 0 THEN CondWait(T) /\ thr' = "wait"
                   ELSE thr' = "pop" /\ UNCHANGED sync
    /\ UNCHANGED <<mode, main, glob, buf, frees, request, result>>

\* while (glob == 0) pthread_cond_wait(); a pending request is acted on on
\* entry, with the mutex held.
Check ==
    /\ Running
    /\ thr = "check"
    /\ \/ /\ glob = 0 /\ ~request
          /\ CondWait(T)
          /\ thr' = "wait" /\ UNCHANGED result
       \/ /\ glob = 0 /\ request
          /\ thr' = "free" /\ result' = "canceled"
          /\ UNCHANGED sync
       \/ /\ glob # 0
          /\ thr' = "pop"
          /\ UNCHANGED <<sync, result>>
    /\ UNCHANGED <<mode, main, glob, buf, frees, request>>

\* pthread_cleanup_pop(POP_TYPE) runs the handler, and the thread returns.
Pop ==
    /\ Running
    /\ thr = "pop"
    /\ thr' = "free" /\ result' = "normal"
    /\ UNCHANGED <<sync, mode, main, glob, buf, frees, request>>

\* A cancelled wait that runs the handler without the mutex.
WokenUnlocked ==
    /\ Running
    /\ thr = "wait"
    /\ T \notin waiters
    /\ IF request THEN thr' = "free" /\ result' = "canceled" /\ UNCHANGED mtx
                  ELSE thr' = "check" /\ mtx' = T /\ UNCHANGED result
    /\ UNCHANGED <<waiters, mode, main, glob, buf, frees, request>>

\* The wait ends, signalled or cancelled, with the mutex owned again.
Woken ==
    /\ Running
    /\ thr = "wait"
    /\ CondReturn(T)
    /\ IF request THEN thr' = "free" /\ result' = "canceled"
                  ELSE thr' = "check" /\ UNCHANGED result
    /\ UNCHANGED <<mode, main, glob, buf, frees, request>>

Spurious ==
    /\ Running
    /\ thr = "wait"
    /\ SpuriousWakeup(T)
    /\ UNCHANGED <<mode, main, thr, glob, buf, frees, request, result>>

\* cleanupHandler(), run by the cancellation or by pthread_cleanup_pop(1).
HandlerFree ==
    /\ Running
    /\ thr = "free"
    /\ IF buf = "null" THEN UNCHANGED <<buf, frees>>
                       ELSE buf' = "freed" /\ frees' = frees + 1
    /\ thr' = "freed"
    /\ UNCHANGED <<sync, mode, main, glob, request, result>>

\* The message between free() and pthread_mutex_unlock(): cancellation is
\* already off while a handler runs.
HandlerPrintf ==
    /\ Running
    /\ thr = "freed"
    /\ thr' = "unlock"
    /\ UNCHANGED <<sync, mode, main, glob, buf, frees, request, result>>

HandlerUnlock ==
    /\ Running
    /\ thr = "unlock"
    /\ MutexUnlock(T)
    /\ thr' = "done"
    /\ UNCHANGED <<mode, main, glob, buf, frees, request, result>>

Thread == Loop \/ Malloc \/ Printf \/ Lock \/ Push \/ Check \/ Woken \/ Pop
             \/ HandlerFree \/ HandlerPrintf \/ HandlerUnlock

Terminated ==
    /\ ~Running
    /\ UNCHANGED vars

\* main() waits in pthread_join() for a thread nobody will wake.
Stuck ==
    /\ main = "join" /\ thr = "wait" /\ T \in waiters
    /\ UNCHANGED vars

Next == Main \/ Thread \/ Spurious \/ Terminated \/ Stuck

Spec == Init /\ [][Next]_vars

\* Both threads run whenever they can; a spurious wakeup need not happen.
FairSpec == Spec /\ WF_vars(Main) /\ WF_vars(Thread)

-----------------------------------------------------------------------------
(***************************************************************************)
(* Wherever the cancellation or the signal catches the thread, the handler *)
(* runs with the mutex owned and the buffer still allocated, and the       *)
(* thread leaves neither behind, unless it is cancelled before the handler *)
(* is pushed, when it has no mutex yet.                                    *)
(***************************************************************************)
CleanedUp ==
    /\ thr = "free" => mtx = T /\ buf \in {"allocated", "null"}
    /\ thr \in {"freed", "unlock"} => mtx = T
    /\ thr = "done" => mtx = NoThread /\ buf # "allocated"
    /\ buf = "leaked" => request /\ frees = 0
    /\ frees <= 1

(***************************************************************************)
(* A thread that main() cancels ends, wherever the request finds it, and   *)
(* main() joins it as PTHREAD_CANCELED.                                    *)
(***************************************************************************)
CancelOutcome ==
    mode # "signal" =>
        <>(main \in {"exit_fail", "crash"} \/ (main = "exit" /\ result = "canceled"))

(***************************************************************************)
(* t_thread_cleanup.c:89 says the branch that signals is there to          *)
(* "terminate the thread normally": main() joins a thread that returned.   *)
(***************************************************************************)
SignalledEnds ==
    mode = "signal" =>
        <>(main = "exit_fail" \/ (main = "exit" /\ result = "normal"))
=============================================================================
