--------------------------- MODULE ThreadJoinTerm ---------------------------
(***************************************************************************)
(* thread_joinTerm.c: main() starts a joiner thread and then THREADNUM     *)
(* workers.  A worker records under the mutex that it is over and signals  *)
(* sigTerm after unlocking; the joiner waits for termNum to be nonzero and *)
(* joins, with the mutex held, every thread whose status says so.          *)
(***************************************************************************)
EXTENDS PthreadSync, Integers, FiniteSets

CONSTANT THREADNUM      \* 5 in the code

ASSUME ThreadNumAssumption == THREADNUM \in Nat \ {0}

VARIABLES
    main,               \* where main() is
    created,            \* how many workers main() has created
    sim,                \* where each worker is
    join,               \* where the joiner is
    idx,                \* the joiner's loop index
    status,             \* threads[].status
    termNum, joinedNum

sync == <<mtx, waiters>>
data == <<status, termNum, joinedNum>>
vars == <<sync, main, created, sim, join, idx, data>>

Threads == 0..(THREADNUM - 1)
JOINER == -1                                \* the joiner thread

ASSUME NoThreadAssumption == NoThread \notin Threads \union {JOINER}

Running == main \notin {"exit_ok", "exit_fail"}

Init ==
    /\ SyncInit
    /\ main = "create_joiner" /\ created = 0
    /\ sim = [t \in Threads |-> "absent"]
    /\ join = "absent" /\ idx = 0
    /\ status = [t \in Threads |-> "ALIVE"]  \* calloc()
    /\ termNum = 0 /\ joinedNum = 0

-----------------------------------------------------------------------------
(* main().                                                                  *)

CreateJoiner ==
    /\ main = "create_joiner"
    /\ \/ main' = "create" /\ join' = "test"
       \/ main' = "exit_fail" /\ UNCHANGED join
    /\ UNCHANGED <<sync, created, sim, idx, data>>

Create ==
    /\ main = "create" /\ created < THREADNUM
    /\ \/ /\ sim' = [sim EXCEPT ![created] = "start"]
          /\ created' = created + 1
          /\ UNCHANGED main
       \/ main' = "exit_fail" /\ UNCHANGED <<sim, created>>
    /\ UNCHANGED <<sync, join, idx, data>>

\* A main() that returns without pthread_join(join, NULL).
JoinJoinerForgotten ==
    /\ main = "create" /\ created >= THREADNUM
    /\ main' = "exit_ok"
    /\ UNCHANGED <<sync, created, sim, join, idx, data>>

JoinJoiner ==
    /\ main = "create" /\ created >= THREADNUM
    /\ join = "done"
    /\ main' = "exit_ok"
    /\ UNCHANGED <<sync, created, sim, join, idx, data>>

Main == CreateJoiner \/ Create \/ JoinJoiner

-----------------------------------------------------------------------------
(* simulation(), thread t.                                                  *)

\* The status is written without the mutex here.
Start(t) ==
    /\ Running
    /\ sim[t] = "start"
    /\ status' = [status EXCEPT ![t] = "ALIVE"]
    /\ sim' = [sim EXCEPT ![t] = "lock"]
    /\ UNCHANGED <<sync, main, created, join, idx, termNum, joinedNum>>

Lock(t) ==
    /\ Running
    /\ sim[t] = "lock"
    /\ MutexLock(t)
    /\ sim' = [sim EXCEPT ![t] = "critical"]
    /\ UNCHANGED <<main, created, join, idx, data>>

Critical(t) ==
    /\ Running
    /\ sim[t] = "critical"
    /\ status' = [status EXCEPT ![t] = "TERMINATED"]
    /\ termNum' = termNum + 1
    /\ sim' = [sim EXCEPT ![t] = "unlock"]
    /\ UNCHANGED <<sync, main, created, join, idx, joinedNum>>

Unlock(t) ==
    /\ Running
    /\ sim[t] = "unlock"
    /\ MutexUnlock(t)
    /\ sim' = [sim EXCEPT ![t] = "signal"]
    /\ UNCHANGED <<main, created, join, idx, data>>

\* A worker that ends without telling the joiner.
SignalForgotten(t) ==
    /\ Running
    /\ sim[t] = "signal"
    /\ sim' = [sim EXCEPT ![t] = "done"]
    /\ UNCHANGED <<sync, main, created, join, idx, data>>

Signal(t) ==
    /\ Running
    /\ sim[t] = "signal"
    /\ CondSignal
    /\ sim' = [sim EXCEPT ![t] = "done"]
    /\ UNCHANGED <<main, created, join, idx, data>>

Simulation(t) == Start(t) \/ Lock(t) \/ Critical(t) \/ Unlock(t) \/ Signal(t)

-----------------------------------------------------------------------------
(* joiner().                                                                *)

JoinerTest ==
    /\ Running
    /\ join = "test"
    /\ join' = IF joinedNum # THREADNUM THEN "lock" ELSE "done"
    /\ UNCHANGED <<sync, main, created, sim, idx, data>>

JoinerLock ==
    /\ Running
    /\ join = "lock"
    /\ MutexLock(JOINER)
    /\ join' = "check"
    /\ UNCHANGED <<main, created, sim, idx, data>>

\* while (termNum == 0) pthread_cond_wait()
JoinerCheck ==
    /\ Running
    /\ join = "check"
    /\ \/ /\ termNum = 0
          /\ CondWait(JOINER)
          /\ join' = "wait" /\ UNCHANGED idx
       \/ /\ termNum # 0
          /\ join' = "scan" /\ idx' = 0
          /\ UNCHANGED sync
    /\ UNCHANGED <<main, created, sim, data>>

JoinerWoken ==
    /\ Running
    /\ join = "wait"
    /\ CondReturn(JOINER)
    /\ join' = "check"
    /\ UNCHANGED <<main, created, sim, idx, data>>

JoinerSpurious ==
    /\ Running
    /\ join = "wait"
    /\ SpuriousWakeup(JOINER)
    /\ UNCHANGED <<main, created, sim, join, idx, data>>

\* A scan that takes every thread that has been started for terminated.
JoinerScanAny ==
    /\ Running
    /\ join = "scan" /\ idx < THREADNUM
    /\ IF sim[idx] # "absent" /\ status[idx] # "JOIN"
       THEN join' = "join" /\ UNCHANGED idx
       ELSE idx' = idx + 1 /\ UNCHANGED join
    /\ UNCHANGED <<sync, main, created, sim, data>>

JoinerScan ==
    /\ Running
    /\ join = "scan" /\ idx < THREADNUM
    /\ IF status[idx] = "TERMINATED"
       THEN join' = "join" /\ UNCHANGED idx
       ELSE idx' = idx + 1 /\ UNCHANGED join
    /\ UNCHANGED <<sync, main, created, sim, data>>

\* A joiner that forgets --termNum.
JoinerJoinKeepsTerm ==
    /\ Running
    /\ join = "join"
    /\ sim[idx] = "done"
    /\ status' = [status EXCEPT ![idx] = "JOIN"]
    /\ joinedNum' = joinedNum + 1
    /\ join' = "scan" /\ idx' = idx + 1
    /\ UNCHANGED <<sync, main, created, sim, termNum>>

\* A joiner that does not wait for the thread to return.
JoinerJoinAtOnce ==
    /\ Running
    /\ join = "join"
    /\ status' = [status EXCEPT ![idx] = "JOIN"]
    /\ termNum' = termNum - 1
    /\ joinedNum' = joinedNum + 1
    /\ join' = "scan" /\ idx' = idx + 1
    /\ UNCHANGED <<sync, main, created, sim>>

\* pthread_join() blocks, with the mutex held, until the thread has returned.
JoinerJoin ==
    /\ Running
    /\ join = "join"
    /\ sim[idx] = "done"
    /\ status' = [status EXCEPT ![idx] = "JOIN"]
    /\ termNum' = termNum - 1
    /\ joinedNum' = joinedNum + 1
    /\ join' = "scan" /\ idx' = idx + 1
    /\ UNCHANGED <<sync, main, created, sim>>

JoinerUnlock ==
    /\ Running
    /\ join = "scan" /\ idx >= THREADNUM
    /\ MutexUnlock(JOINER)
    /\ join' = "test"
    /\ UNCHANGED <<main, created, sim, idx, data>>

Joiner == JoinerTest \/ JoinerLock \/ JoinerCheck \/ JoinerWoken
             \/ JoinerScan \/ JoinerJoin \/ JoinerUnlock

-----------------------------------------------------------------------------
Terminated ==
    /\ ~Running
    /\ UNCHANGED vars

Next ==
    \/ Main
    \/ \E t \in Threads : Simulation(t)
    \/ Joiner
    \/ JoinerSpurious
    \/ Terminated

Spec == Init /\ [][Next]_vars

(***************************************************************************)
(* The scheduler runs every thread that can run.  The joiner may take the  *)
(* mutex again and again after spurious wakeups, so the workers' locks     *)
(* need strong fairness: a thread that keeps competing for the mutex gets  *)
(* it eventually.                                                          *)
(***************************************************************************)
FairSpec == Spec /\ WF_vars(Main) /\ WF_vars(Joiner)
                 /\ \A t \in Threads : WF_vars(Simulation(t)) /\ SF_vars(Lock(t))

-----------------------------------------------------------------------------
\* Every variable has its type; the counters stay between 0 and THREADNUM.
TypeOK ==
    /\ mtx \in {NoThread, JOINER} \union Threads
    /\ waiters \subseteq {JOINER}
    /\ main \in {"create_joiner", "create", "exit_ok", "exit_fail"}
    /\ created \in 0..THREADNUM
    /\ sim \in [Threads -> {"absent", "start", "lock", "critical", "unlock",
                            "signal", "done"}]
    /\ join \in {"absent", "test", "lock", "check", "wait", "scan", "join", "done"}
    /\ idx \in 0..THREADNUM
    /\ status \in [Threads -> {"ALIVE", "TERMINATED", "JOIN"}]
    /\ termNum \in 0..THREADNUM
    /\ joinedNum \in 0..THREADNUM

(***************************************************************************)
(* The counters the joiner decides by count the statuses it acts on: it    *)
(* never sleeps on termNum = 0 with a terminated thread left, and never    *)
(* leaves its loop with a thread not joined.                               *)
(***************************************************************************)
CountersAgree ==
    /\ termNum = Cardinality({t \in Threads : status[t] = "TERMINATED"})
    /\ joinedNum = Cardinality({t \in Threads : status[t] = "JOIN"})

(***************************************************************************)
(* Joining with the mutex held cannot deadlock: a thread the joiner blocks *)
(* on is past its critical region and needs the mutex no more.  And a      *)
(* thread is marked joined only after it has returned.                     *)
(***************************************************************************)
JoinIsSafe ==
    /\ join = "join" => sim[idx] \in {"signal", "done"}
    /\ \A t \in Threads : status[t] = "JOIN" => sim[t] = "done"

(***************************************************************************)
(* The signal is sent after the mutex is released, and may find nobody     *)
(* waiting; still no wakeup is lost, and the program ends.                 *)
(***************************************************************************)
AllJoined == <>(main \in {"exit_ok", "exit_fail"})

\* The life of a thread is what its status says, the outcome what main() does.
LifeMap == [t \in Threads |-> IF status[t] = "ALIVE" THEN "alive"
                              ELSE IF status[t] = "TERMINATED" THEN "terminated"
                              ELSE "joined"]
Outcome == IF main = "exit_ok" THEN "complete"
           ELSE IF main = "exit_fail" THEN "gave_up" ELSE "running"

Life == INSTANCE ThreadLife WITH life <- LifeMap, outcome <- Outcome

(***************************************************************************)
(* thread_joinTerm.c implements "alive ==> terminated ==> join": the late, *)
(* unlocked status = ALIVE of a starting thread never undoes a later state,*)
(* no thread is joined twice, and main() returns only after all are joined.*)
(***************************************************************************)
ImplementsThreadLife == Life!Spec
=============================================================================
