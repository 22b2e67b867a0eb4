-------------------------- MODULE ThreadMultijoin ---------------------------
(***************************************************************************)
(* thread_multijoin.c: main() starts one thread per command-line argument  *)
(* and then, woken through threadDied, walks over all of them.  In the     *)
(* walk only pthread_join() depends on the state of the thread: the lines  *)
(* after it mark every thread joined and count every thread down.          *)
(***************************************************************************)
EXTENDS PthreadSync, Integers, FiniteSets

CONSTANT MaxThreads     \* the largest number of arguments (bound)

VARIABLES
    argc1,              \* argc - 1, fixed at start
    main,               \* where main() is
    idx,                \* main()'s loop index
    run,                \* where each thread is
    joined,             \* the threads pthread_join() has returned for
    state,              \* thread[].state
    totThreads, numLive, numUnjoined

sync == <<mtx, waiters>>
data == <<state, totThreads, numLive, numUnjoined>>
vars == <<sync, argc1, main, idx, run, joined, data>>

Threads == 0..(argc1 - 1)
MAIN == -1                                  \* main()'s thread
Running == main \notin {"exit_ok", "exit_fail"}

Init ==
    /\ SyncInit
    /\ argc1 \in 0..MaxThreads
    /\ main = "create" /\ idx = 0
    /\ run = [t \in Threads |-> "absent"]
    /\ joined = {}
    /\ state = [t \in Threads |-> "ALIVE"]
    /\ totThreads = 0 /\ numLive = 0 /\ numUnjoined = 0

-----------------------------------------------------------------------------
(* main().                                                                  *)

Create ==
    /\ main = "create" /\ idx < argc1
    /\ \/ /\ run' = [run EXCEPT ![idx] = "lock"]
          /\ idx' = idx + 1 /\ UNCHANGED main
       \/ main' = "exit_fail" /\ UNCHANGED <<run, idx>>
    /\ UNCHANGED <<sync, argc1, joined, data>>

Created ==
    /\ main = "create" /\ idx >= argc1
    /\ totThreads' = argc1
    /\ numLive' = argc1
    /\ main' = "test"
    /\ UNCHANGED <<sync, argc1, idx, run, joined, state, numUnjoined>>

Test ==
    /\ main = "test"
    /\ main' = IF numLive > 0 THEN "lock" ELSE "exit_ok"
    /\ UNCHANGED <<sync, argc1, idx, run, joined, data>>

MainLock ==
    /\ main = "lock"
    /\ MutexLock(MAIN)
    /\ main' = "check"
    /\ UNCHANGED <<argc1, idx, run, joined, data>>

\* while (numUnjoined == 0) pthread_cond_wait()
Check ==
    /\ main = "check"
    /\ \/ /\ numUnjoined = 0
          /\ CondWait(MAIN)
          /\ main' = "wait" /\ UNCHANGED idx
       \/ /\ numUnjoined # 0
          /\ main' = "walk" /\ idx' = 0
          /\ UNCHANGED sync
    /\ UNCHANGED <<argc1, run, joined, data>>

Woken ==
    /\ main = "wait"
    /\ CondReturn(MAIN)
    /\ main' = "check"
    /\ UNCHANGED <<argc1, idx, run, joined, data>>

Spurious ==
    /\ main = "wait"
    /\ SpuriousWakeup(MAIN)
    /\ UNCHANGED <<argc1, main, idx, run, joined, data>>

\* pthread_join() waits for a terminated thread to return; a thread in any
\* other state is marked and counted down all the same.
Walk ==
    /\ main = "walk" /\ idx < totThreads
    /\ \/ /\ state[idx] = "TERMINATED"
          /\ run[idx] = "done"
          /\ joined' = joined \union {idx}
       \/ /\ state[idx] # "TERMINATED"
          /\ UNCHANGED joined
    /\ state' = [state EXCEPT ![idx] = "JOINED"]
    /\ numLive' = numLive - 1
    /\ numUnjoined' = numUnjoined - 1
    /\ idx' = idx + 1
    /\ UNCHANGED <<sync, argc1, main, run, totThreads>>

MainUnlock ==
    /\ main = "walk" /\ idx >= totThreads
    /\ MutexUnlock(MAIN)
    /\ main' = "test"
    /\ UNCHANGED <<argc1, idx, run, joined, data>>

Main == Create \/ Created \/ Test \/ MainLock \/ Check \/ Woken \/ Walk \/ MainUnlock

-----------------------------------------------------------------------------
(* threadFunc(), thread t.                                                  *)

Lock(t) ==
    /\ Running
    /\ run[t] = "lock"
    /\ MutexLock(t)
    /\ run' = [run EXCEPT ![t] = "critical"]
    /\ UNCHANGED <<argc1, main, idx, joined, data>>

\* A thread that counts itself without setting its state.
CriticalCountOnly(t) ==
    /\ Running
    /\ run[t] = "critical"
    /\ numUnjoined' = numUnjoined + 1
    /\ run' = [run EXCEPT ![t] = "unlock"]
    /\ UNCHANGED <<sync, argc1, main, idx, joined, state, totThreads, numLive>>

Critical(t) ==
    /\ Running
    /\ run[t] = "critical"
    /\ numUnjoined' = numUnjoined + 1
    /\ state' = [state EXCEPT ![t] = "TERMINATED"]
    /\ run' = [run EXCEPT ![t] = "unlock"]
    /\ UNCHANGED <<sync, argc1, main, idx, joined, totThreads, numLive>>

Unlock(t) ==
    /\ Running
    /\ run[t] = "unlock"
    /\ MutexUnlock(t)
    /\ run' = [run EXCEPT ![t] = "signal"]
    /\ UNCHANGED <<argc1, main, idx, joined, data>>

Signal(t) ==
    /\ Running
    /\ run[t] = "signal"
    /\ CondSignal
    /\ run' = [run EXCEPT ![t] = "done"]
    /\ UNCHANGED <<argc1, main, idx, joined, data>>

ThreadFunc(t) == Lock(t) \/ Critical(t) \/ Unlock(t) \/ Signal(t)

Terminated ==
    /\ ~Running
    /\ UNCHANGED vars

Next == Main \/ Spurious \/ (\E t \in Threads : ThreadFunc(t)) \/ Terminated

Spec == Init /\ [][Next]_vars

(***************************************************************************)
(* The scheduler runs every thread that can run, and a thread that keeps   *)
(* competing for the mutex gets it eventually.                             *)
(***************************************************************************)
FairSpec == Spec /\ WF_vars(Main)
                 /\ \A t \in 0..(MaxThreads - 1) :
                       /\ WF_vars(t \in Threads /\ ThreadFunc(t))
                       /\ SF_vars(t \in Threads /\ Lock(t))

-----------------------------------------------------------------------------
(***************************************************************************)
(* Until main() walks, numUnjoined counts the terminated threads, so it    *)
(* neither sleeps on a terminated thread nor walks without one; and        *)
(* pthread_join() is only ever entered for a thread past its critical      *)
(* region, which cannot need the mutex main() holds.                       *)
(***************************************************************************)
UnjoinedCounts ==
    /\ main \in {"create", "test", "lock", "check", "wait"} /\ numLive = totThreads =>
          numUnjoined = Cardinality({t \in Threads : state[t] = "TERMINATED"})
    /\ main = "walk" /\ idx < totThreads /\ state[idx] = "TERMINATED" =>
          run[idx] \in {"signal", "done"}

(***************************************************************************)
(* thread_multijoin.c:27 says that a thread marked TS_JOINED is a "thread  *)
(* terminated, and joined": pthread_join() has returned for it.            *)
(***************************************************************************)
JoinedMeansJoined == \A t \in Threads : state[t] = "JOINED" => t \in joined
=============================================================================
