----------------------------- MODULE ThreadInc ------------------------------
(***************************************************************************)
(* thread_inc.c: two threads run glob++ loops times each, without a lock.  *)
(* The increment is a load and a store.  glob is not volatile (CMPL_OPT is *)
(* defined), so the compiler may keep it in a register for the whole loop; *)
(* with USE_LOCK a thread holds the mutex for the whole loop.  The three   *)
(* builds are the values of build.  loops is far below the width of an int.*)
(***************************************************************************)
EXTENDS PthreadSync, Integers

CONSTANT LoopArgs       \* what atoi(argv[1]) may yield, or 1000 without argument

VARIABLES
    build,              \* "plain", "hoisted" or "locked", fixed at start
    loops,              \* fixed at start
    main,               \* where main() is
    thr,                \* where each thread is
    done,               \* how many increments each thread has stored
    reg,                \* the value each thread has loaded
    glob

sync == <<mtx, waiters>>
vars == <<sync, build, loops, main, thr, done, reg, glob>>

Incs == {1, 2}                              \* thr1 and thr2
Running == main \notin {"exit_ok", "exit_fail"}

\* What one load and store of glob add.
Stride == IF build = "hoisted" THEN loops ELSE 1

Init ==
    /\ SyncInit
    /\ build \in {"plain", "hoisted", "locked"}
    /\ loops \in LoopArgs
    /\ main = "args"
    /\ thr = [t \in Incs |-> "absent"]
    /\ done = [t \in Incs |-> 0]
    /\ reg = [t \in Incs |-> 0]
    /\ glob = 0

-----------------------------------------------------------------------------
(* main().                                                                  *)

Args ==
    /\ main = "args"
    /\ main' = IF loops <= 0 THEN "exit_fail" ELSE "create"
    /\ UNCHANGED <<sync, build, loops, thr, done, reg, glob>>

\* pthread_create() of thr1, then of thr2; if one fails main() exits.
Create(t) ==
    /\ main = "create"
    /\ thr[t] = "absent" /\ \A u \in 1..(t - 1) : thr[u] # "absent"
    /\ \/ /\ thr' = [thr EXCEPT ![t] = "start"]
          /\ main' = IF t = 2 THEN "join" ELSE "create"
       \/ main' = "exit_fail" /\ UNCHANGED thr
    /\ UNCHANGED <<sync, build, loops, done, reg, glob>>

\* A main() that joins thr1 only.
JoinFirstOnly ==
    /\ main = "join"
    /\ thr[1] = "done"
    /\ main' = "exit_ok"
    /\ UNCHANGED <<sync, build, loops, thr, done, reg, glob>>

\* Both joins, and the value of glob that is printed.
Join ==
    /\ main = "join"
    /\ \A t \in Incs : thr[t] = "done"
    /\ main' = "exit_ok"
    /\ UNCHANGED <<sync, build, loops, thr, done, reg, glob>>

Main == Args \/ (\E t \in Incs : Create(t)) \/ Join

-----------------------------------------------------------------------------
(* threadFunc(), thread t.                                                  *)

Start(t) ==
    /\ Running
    /\ thr[t] = "start"
    /\ IF build = "locked" THEN MutexLock(t) ELSE UNCHANGED sync
    /\ thr' = [thr EXCEPT ![t] = "test"]
    /\ UNCHANGED <<build, loops, main, done, reg, glob>>

Load(t) ==
    /\ Running
    /\ thr[t] = "test" /\ done[t] < loops
    /\ reg' = [reg EXCEPT ![t] = glob]
    /\ thr' = [thr EXCEPT ![t] = "store"]
    /\ UNCHANGED <<sync, build, loops, main, done, glob>>

Store(t) ==
    /\ Running
    /\ thr[t] = "store"
    /\ glob' = reg[t] + Stride
    /\ done' = [done EXCEPT ![t] = @ + Stride]
    /\ thr' = [thr EXCEPT ![t] = "test"]
    /\ UNCHANGED <<sync, build, loops, main, reg>>

Finish(t) ==
    /\ Running
    /\ thr[t] = "test" /\ done[t] >= loops
    /\ IF build = "locked" THEN MutexUnlock(t) ELSE UNCHANGED sync
    /\ thr' = [thr EXCEPT ![t] = "done"]
    /\ UNCHANGED <<build, loops, main, done, reg, glob>>

ThreadFunc(t) == Start(t) \/ Load(t) \/ Store(t) \/ Finish(t)

Terminated ==
    /\ ~Running
    /\ UNCHANGED vars

Next == Main \/ (\E t \in Incs : ThreadFunc(t)) \/ Terminated

Spec == Init /\ [][Next]_vars

-----------------------------------------------------------------------------
\* The least value glob can have in the end: with the lock no increment is
\* lost; a thread that keeps glob in a register loses at most the other's
\* whole loop; load by load, all but the last increment of each may be lost.
LeastGlob ==
    IF build = "locked" THEN 2 * loops
    ELSE IF build = "hoisted" \/ loops = 1 THEN loops ELSE 2

(***************************************************************************)
(* The value main() prints.  A thread may overwrite any number of the      *)
(* other's increments, yet never all but one: it loads its last value      *)
(* after its own first store.                                              *)
(***************************************************************************)
GlobRange ==
    main = "exit_ok" => glob >= LeastGlob /\ glob <= 2 * loops
=============================================================================
