-------------------------- MODULE ThreadLifecycle ---------------------------
(***************************************************************************)
(* The example programs that create threads and end, each in its own way:  *)
(*   join       t_pthread_join.c       joins, then pthread_exit()          *)
(*   join2      t_pthread_join2.c      joins five threads in order         *)
(*   create     t_pthread_create.c     sleeps a second and returns         *)
(*   create_2   t_pthread_create_2.c   pthread_exit() at once              *)
(*   detach     t_pthread_detach.c     detaches, sleeps and returns        *)
(*   attr       t_pthread_attr.c       creates it detached and returns     *)
(*   mutexattr  t_pthread_mutexattr.c  joins two threads; the first locks  *)
(*              an error-checking mutex and ends, the second unlocks it    *)
(* A sleep is no promise about where another thread is.                    *)
(***************************************************************************)
EXTENDS Integers

VARIABLES
    which,              \* the program, fixed at start
    main,               \* where main() is
    idx,                \* main()'s loop index
    thr,                \* where each thread is
    owner               \* the thread that owns t_pthread_mutexattr.c's mutex, or -1

vars == <<which, main, idx, thr, owner>>

Programs == {"join", "join2", "create", "create_2", "detach", "attr", "mutexattr"}
Checked  == {"join", "attr", "mutexattr"}   \* test what pthread_create() returns
Joining  == {"join", "join2", "mutexattr"}
Threads  == 0..4
Count    == IF which = "join2" THEN 5 ELSE IF which = "mutexattr" THEN 2 ELSE 1

Init ==
    /\ which \in Programs
    /\ main = "create" /\ idx = 0
    /\ thr = [t \in Threads |-> "absent"]
    /\ owner = -1

Over == \/ main \in {"exit", "exit_fail", "crash"}
        \/ main = "gone" /\ \A t \in Threads : thr[t] # "run"

\* The calls that set up attributes fail like pthread_create() does.
Create ==
    /\ main = "create" /\ idx < Count
    /\ \/ thr' = [thr EXCEPT ![idx] = "run"] /\ idx' = idx + 1 /\ UNCHANGED main
       \/ which \in Checked /\ main' = "exit_fail" /\ UNCHANGED <<thr, idx>>
       \/ which \notin Checked /\ idx' = idx + 1 /\ UNCHANGED <<main, thr>>
    /\ UNCHANGED <<which, owner>>

Created ==
    /\ main = "create" /\ idx = Count
    /\ main' = CASE which \in Joining           -> "join"
                 [] which = "create_2"          -> "gone"
                 [] which = "detach"            -> "detach"
                 [] which \in {"create", "attr"} -> "return"
    /\ idx' = 0
    /\ UNCHANGED <<which, thr, owner>>

\* An identifier no pthread_create() has set may crash pthread_join() and
\* pthread_detach(), or make them fail.
Join ==
    /\ main = "join" /\ idx < Count
    /\ \/ thr[idx] = "done" /\ idx' = idx + 1 /\ UNCHANGED main
       \/ thr[idx] = "absent" /\ idx' = idx + 1 /\ UNCHANGED main
       \/ thr[idx] = "absent" /\ main' = "crash" /\ UNCHANGED idx
    /\ UNCHANGED <<which, thr, owner>>

\* A main() that leaves its last thread out.
JoinedEarly ==
    /\ main = "join" /\ idx >= Count - 1
    /\ main' = IF which = "join" THEN "gone" ELSE "return"
    /\ UNCHANGED <<which, idx, thr, owner>>

Joined ==
    /\ main = "join" /\ idx >= Count
    /\ main' = IF which = "join" THEN "gone" ELSE "return"
    /\ UNCHANGED <<which, idx, thr, owner>>

Detach ==
    /\ main = "detach"
    /\ main' = "return" \/ (thr[0] = "absent" /\ main' = "crash")
    /\ UNCHANGED <<which, idx, thr, owner>>

\* The sleep, if there is one, and return: the process ends with its threads.
Return ==
    /\ main = "return"
    /\ main' = "exit"
    /\ UNCHANGED <<which, idx, thr, owner>>

Main == Create \/ Created \/ Join \/ Joined \/ Detach \/ Return

\* pthread_mutex_unlock() of an error-checking mutex by thread t: one that t
\* does not own stays as it is.
UnlockChecked(o, t) == IF o = t THEN -1 ELSE o

\* A thread function, func1() and func2() of t_pthread_mutexattr.c among them.
Func(t) ==
    /\ ~Over
    /\ thr[t] = "run"
    /\ owner' = IF which # "mutexattr" THEN owner
                ELSE IF t = 0 THEN t ELSE UnlockChecked(owner, t)
    /\ thr' = [thr EXCEPT ![t] = "done"]
    /\ UNCHANGED <<which, main, idx>>

Terminated == Over /\ UNCHANGED vars

Next == Main \/ (\E t \in Threads : Func(t)) \/ Terminated

(***************************************************************************)
(* A program that joins its threads or leaves main() by pthread_exit()     *)
(* ends only after every thread it created; t_pthread_mutexattr.c ends     *)
(* with the mutex locked, in whatever order its two threads ran.           *)
(***************************************************************************)
EndsAfterThreads ==
    /\ Over /\ main \notin {"crash", "exit_fail"} /\ which \in Joining \union {"create_2"} =>
          \A t \in Threads : thr[t] # "run"
    /\ main = "exit" /\ which = "mutexattr" => owner = 0
=============================================================================
