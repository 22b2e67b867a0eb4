--------------------------- MODULE ThreadPrograms ---------------------------
(***************************************************************************)
(* The thread programs of the repository under one scheduler.  A behaviour *)
(* is an execution of one of them, prog: the others stay at their initial  *)
(* states.  thread_joinTerm.c keeps the names of its module.               *)
(***************************************************************************)
EXTENDS ThreadJoinTerm

CONSTANTS MaxThreads, Modes, LoopArgs       \* of the other programs

ASSUME MaxThreadsAssumption == MaxThreads \in Nat
ASSUME LoopArgsAssumption == LoopArgs \subseteq Int
\* The programs' threads are numbers and T of ThreadCleanup.
ASSUME NobodyAssumption == NoThread \notin Int /\ NoThread # "thread"

VARIABLES
    prog,                                   \* the program that is run
    mjMtx, mjWaiters, mjMain, mjIdx,        \* thread_multijoin.c
    argc1, run, joined, state, totThreads, numLive, numUnjoined,
    tcMtx, tcWaiters, tcMain, tcThr, tcGlob,    \* t_thread_cleanup.c and kin
    mode, buf, frees, request, result,
    incMtx, incWaiters, incMain, thr, glob,     \* thread_inc.c
    build, loops, done, reg,
    which, lcMain, lcIdx, lcThr, owner          \* the life-cycle examples

Multijoin == INSTANCE ThreadMultijoin WITH
    mtx <- mjMtx, waiters <- mjWaiters, main <- mjMain, idx <- mjIdx
Cleanup == INSTANCE ThreadCleanup WITH
    mtx <- tcMtx, waiters <- tcWaiters, main <- tcMain, thr <- tcThr, glob <- tcGlob
Inc == INSTANCE ThreadInc WITH
    mtx <- incMtx, waiters <- incWaiters, main <- incMain
Lifecycle == INSTANCE ThreadLifecycle WITH
    main <- lcMain, idx <- lcIdx, thr <- lcThr

multijoinVars == <<mjMtx, mjWaiters, mjMain, mjIdx, argc1, run, joined, state,
                   totThreads, numLive, numUnjoined>>
cleanupVars   == <<tcMtx, tcWaiters, tcMain, tcThr, tcGlob, mode, buf, frees,
                   request, result>>
incVars       == <<incMtx, incWaiters, incMain, thr, glob, build, loops, done, reg>>
lifecycleVars == <<which, lcMain, lcIdx, lcThr, owner>>
progVars == <<prog, vars, multijoinVars, cleanupVars, incVars, lifecycleVars>>

\* The parameters of a program that is not run have one value.
ProgInit ==
    /\ prog \in {"joinTerm", "multijoin", "cleanup", "inc", "lifecycle"}
    /\ Init /\ Multijoin!Init /\ Cleanup!Init /\ Inc!Init /\ Lifecycle!Init
    /\ prog # "multijoin" => argc1 = 0
    /\ prog # "cleanup" => mode = "cancel"
    /\ prog # "inc" => build = "plain" /\ loops = 0
    /\ prog # "lifecycle" => which = "join"

JoinTermStep(A) ==
    /\ prog = "joinTerm" /\ A
    /\ UNCHANGED <<prog, multijoinVars, cleanupVars, incVars, lifecycleVars>>
MultijoinStep(A) ==
    /\ prog = "multijoin" /\ A
    /\ UNCHANGED <<prog, vars, cleanupVars, incVars, lifecycleVars>>
CleanupStep(A) ==
    /\ prog = "cleanup" /\ A
    /\ UNCHANGED <<prog, vars, multijoinVars, incVars, lifecycleVars>>
IncStep(A) ==
    /\ prog = "inc" /\ A
    /\ UNCHANGED <<prog, vars, multijoinVars, cleanupVars, lifecycleVars>>
LifecycleStep(A) ==
    /\ prog = "lifecycle" /\ A
    /\ UNCHANGED <<prog, vars, multijoinVars, cleanupVars, incVars>>

ProgNext ==
    \/ JoinTermStep(Next)
    \/ MultijoinStep(Multijoin!Next)
    \/ CleanupStep(Cleanup!Next)
    \/ IncStep(Inc!Next)
    \/ LifecycleStep(Lifecycle!Next)

\* The thread main() runs in, whichever program it is.
MainThread ==
    \/ JoinTermStep(Main)
    \/ MultijoinStep(Multijoin!Main)
    \/ CleanupStep(Cleanup!Main)
    \/ IncStep(Inc!Main)
    \/ LifecycleStep(Lifecycle!Main)

\* The thread main() creates beside its workers, or its only one.
FirstThread == JoinTermStep(Joiner) \/ CleanupStep(Cleanup!Thread)

\* Every index a worker of one of the programs has.
Workers == 0..4

Worker(t) ==
    \/ t \in Threads /\ JoinTermStep(Simulation(t))
    \/ t \in Multijoin!Threads /\ MultijoinStep(Multijoin!ThreadFunc(t))
    \/ t \in Inc!Incs /\ IncStep(Inc!ThreadFunc(t))
    \/ t \in Lifecycle!Threads /\ LifecycleStep(Lifecycle!Func(t))

\* Worker t takes the mutex main() or the joiner takes again and again.
WorkerLock(t) ==
    \/ t \in Threads /\ JoinTermStep(Lock(t))
    \/ t \in Multijoin!Threads /\ MultijoinStep(Multijoin!Lock(t))

(***************************************************************************)
(* The scheduler runs every thread that can run, and a thread that keeps   *)
(* competing for a mutex gets it eventually.  No spurious wakeup need ever *)
(* happen.                                                                 *)
(***************************************************************************)
ProgSpec ==
    /\ ProgInit /\ [][ProgNext]_progVars
    /\ WF_progVars(MainThread) /\ WF_progVars(FirstThread)
    /\ \A t \in Workers : WF_progVars(Worker(t)) /\ SF_progVars(WorkerLock(t))

-----------------------------------------------------------------------------
\* thread_joinTerm.c: no wakeup is lost, and the program ends (AllJoined).
JoinTermEnds == prog = "joinTerm" => AllJoined

\* thread_multijoin.c: numUnjoined counts the terminated threads until main()
\* walks, and main() joins only threads that no longer need the mutex.
UnjoinedCounts == Multijoin!UnjoinedCounts

\* t_thread_cleanup.c: the handler runs with the mutex owned and the buffer
\* allocated, once, wherever the cancellation or the signal finds the thread.
CleanedUp == Cleanup!CleanedUp

\* t_thread_cleanup.c, t_pthread_cancel.c, t_pthread_cancel2.c: a cancelled
\* thread ends and is joined as such.
CancelOutcome == prog = "cleanup" => Cleanup!CancelOutcome

\* thread_inc.c: the value main() prints lies between LeastGlob and 2 * loops.
GlobRange == Inc!GlobRange

\* The life-cycle examples: a program that joins, or leaves main() by
\* pthread_exit(), ends only after the threads it created, and the
\* error-checking mutex is locked in the end.
EndsAfterThreads == Lifecycle!EndsAfterThreads
=============================================================================
