---------------------------- MODULE PthreadSync -----------------------------
(***************************************************************************)
(* One default-type POSIX mutex and one condition variable, as the         *)
(* threaded programs of this repository use them.  The pthread library is  *)
(* not part of the repository: these operators state the contract of the   *)
(* calls the programs make.  A default mutex that is locked and unlocked   *)
(* in turn by its owner never reports an error, so the error branches      *)
(* after these calls have no counterpart here.                             *)
(***************************************************************************)

CONSTANT NoThread       \* the owner of an unlocked mutex

VARIABLES
    mtx,                \* the thread that owns the mutex, or NoThread
    waiters             \* the threads blocked on the condition variable

SyncInit ==
    /\ mtx = NoThread
    /\ waiters = {}

\* pthread_mutex_lock() returns to thread t.
MutexLock(t) ==
    /\ mtx = NoThread
    /\ mtx' = t
    /\ UNCHANGED waiters

\* Thread t, the owner, calls pthread_mutex_unlock().
MutexUnlock(t) ==
    /\ mtx = t
    /\ mtx' = NoThread
    /\ UNCHANGED waiters

\* Thread t enters pthread_cond_wait(): it gives up the mutex and blocks in
\* one atomic step.
CondWait(t) ==
    /\ mtx = t
    /\ mtx' = NoThread
    /\ waiters' = waiters \union {t}

\* Thread t, no longer blocked on the condition variable, owns the mutex again
\* and pthread_cond_wait() returns to it.
CondReturn(t) ==
    /\ t \notin waiters
    /\ MutexLock(t)

\* pthread_cond_signal(): unblocks a waiter if there is one, and is forgotten
\* if there is none.
CondSignal ==
    /\ IF waiters = {} THEN UNCHANGED waiters
                       ELSE \E t \in waiters : waiters' = waiters \ {t}
    /\ UNCHANGED mtx

\* POSIX lets pthread_cond_wait() wake thread t without any signal.
SpuriousWakeup(t) ==
    /\ t \in waiters
    /\ waiters' = waiters \ {t}
    /\ UNCHANGED mtx
=============================================================================
