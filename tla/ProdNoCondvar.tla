--------------------------- MODULE ProdNoCondvar ----------------------------
(***************************************************************************)
(* prod_no_condvar.c: main() starts one producer thread per command-line   *)
(* argument, each told how many units to make, and then polls for units    *)
(* under the mutex until it has consumed as many as the arguments add up   *)
(* to.  There is no condition variable and no join: returning from main()  *)
(* ends the process whatever the producers are doing.                      *)
(***************************************************************************)
EXTENDS Integers, Sequences, FiniteSets

CONSTANTS
    ArgValues,          \* the integers atoi() may return for an argument
    MaxArgs             \* the largest number of arguments (bound)

ASSUME ArgsAssumption == ArgValues \subseteq Int /\ MaxArgs \in Nat

VARIABLES
    pmtx,               \* the owner of this program's mutex
    argv,               \* the requested counts, fixed at start
    mainAt,             \* where main() is
    created,            \* how many producers main() has created
    totalRequired, done,
    prodAt,             \* where each producer is
    jOf,                \* each producer's loop counter
    avail, numConsumed

pollVars ==
    <<pmtx, argv, mainAt, created, totalRequired, done, prodAt, jOf, avail, numConsumed>>

\* Threads are numbers: main() is 0, and -1 stands for none.
MAIN == 0
NoOwner == -1

\* The program's mutex; it has no condition variable, so nobody waits on one.
Mutex == INSTANCE PthreadSync WITH mtx <- pmtx, waiters <- {}, NoThread <- NoOwner

Producers == 1..Len(argv)
PollEnded == {"exit_ok", "exit_fail"}
PollRunning == mainAt \notin PollEnded

PollInit ==
    /\ Mutex!SyncInit
    /\ argv \in UNION {[1..n -> ArgValues] : n \in 0..MaxArgs}
    /\ mainAt = "create"
    /\ created = 0 /\ totalRequired = 0 /\ done = FALSE
    /\ prodAt = [t \in Producers |-> "absent"]
    /\ jOf = [t \in Producers |-> 0]
    /\ avail = 0 /\ numConsumed = 0

-----------------------------------------------------------------------------
(* main(): the creation loop, then the polling loop.                        *)

Create ==
    /\ mainAt = "create"
    /\ created < Len(argv)
    /\ totalRequired' = totalRequired + argv[created + 1]
    /\ \/ /\ created' = created + 1
          /\ prodAt' = [prodAt EXCEPT ![created + 1] = "loop"]
          /\ UNCHANGED mainAt
       \/ /\ mainAt' = "exit_fail"
          /\ UNCHANGED <<created, prodAt>>
    /\ UNCHANGED <<pmtx, argv, done, jOf, avail, numConsumed>>

StartPolling ==
    /\ mainAt = "create"
    /\ created >= Len(argv)
    /\ mainAt' = "lock"
    /\ UNCHANGED <<pmtx, argv, created, totalRequired, done, prodAt, jOf, avail, numConsumed>>

MainLock ==
    /\ mainAt = "lock"
    /\ Mutex!MutexLock(MAIN)
    /\ mainAt' = "drain"
    /\ UNCHANGED <<argv, created, totalRequired, done, prodAt, jOf, avail, numConsumed>>

\* A poll that is satisfied by one unit less than required.
EnoughOffByOne(n) == n >= totalRequired - 1

\* done = numConsumed >= totalRequired
Enough(n) == n >= totalRequired

\* while (avail > 0): one unit a step; done is computed only here.
MainDrain ==
    /\ mainAt = "drain"
    /\ \/ /\ avail > 0
          /\ numConsumed' = numConsumed + 1
          /\ avail' = avail - 1
          /\ done' = Enough(numConsumed')
          /\ UNCHANGED mainAt
       \/ /\ avail <= 0
          /\ mainAt' = "unlock"
          /\ UNCHANGED <<done, avail, numConsumed>>
    /\ UNCHANGED <<pmtx, argv, created, totalRequired, prodAt, jOf>>

MainUnlock ==
    /\ mainAt = "unlock"
    /\ Mutex!MutexUnlock(MAIN)
    /\ mainAt' = "test"
    /\ UNCHANGED <<argv, created, totalRequired, done, prodAt, jOf, avail, numConsumed>>

MainTest ==
    /\ mainAt = "test"
    /\ mainAt' = IF done THEN "exit_ok" ELSE "lock"
    /\ UNCHANGED <<pmtx, argv, created, totalRequired, done, prodAt, jOf, avail, numConsumed>>

PollMain == Create \/ StartPolling \/ MainLock \/ MainDrain \/ MainUnlock \/ MainTest

-----------------------------------------------------------------------------
(* producer(), thread t.                                                    *)

PollProducerLock(t) ==
    /\ PollRunning
    /\ prodAt[t] = "loop"
    /\ jOf[t] < argv[t]
    /\ Mutex!MutexLock(t)
    /\ prodAt' = [prodAt EXCEPT ![t] = "produce"]
    /\ UNCHANGED <<argv, mainAt, created, totalRequired, done, jOf, avail, numConsumed>>

\* avail++ done as if nobody else could change avail since the last iteration
\* of this producer.
PollProduceFromStale(t) ==
    /\ PollRunning
    /\ prodAt[t] = "produce"
    /\ avail' = jOf[t] + 1
    /\ prodAt' = [prodAt EXCEPT ![t] = "unlock"]
    /\ UNCHANGED <<pmtx, argv, mainAt, created, totalRequired, done, jOf, numConsumed>>

PollProduce(t) ==
    /\ PollRunning
    /\ prodAt[t] = "produce"
    /\ avail' = avail + 1
    /\ prodAt' = [prodAt EXCEPT ![t] = "unlock"]
    /\ UNCHANGED <<pmtx, argv, mainAt, created, totalRequired, done, jOf, numConsumed>>

\* A producer that leaves its critical region without unlocking.
PollUnlockForgotten(t) ==
    /\ PollRunning
    /\ prodAt[t] = "unlock"
    /\ prodAt' = [prodAt EXCEPT ![t] = "loop"]
    /\ jOf' = [jOf EXCEPT ![t] = @ + 1]
    /\ UNCHANGED <<pmtx, argv, mainAt, created, totalRequired, done, avail, numConsumed>>

PollProducerUnlock(t) ==
    /\ PollRunning
    /\ prodAt[t] = "unlock"
    /\ Mutex!MutexUnlock(t)
    /\ prodAt' = [prodAt EXCEPT ![t] = "loop"]
    /\ jOf' = [jOf EXCEPT ![t] = @ + 1]
    /\ UNCHANGED <<argv, mainAt, created, totalRequired, done, avail, numConsumed>>

PollProducerReturn(t) ==
    /\ PollRunning
    /\ prodAt[t] = "loop"
    /\ jOf[t] >= argv[t]
    /\ prodAt' = [prodAt EXCEPT ![t] = "done"]
    /\ UNCHANGED <<pmtx, argv, mainAt, created, totalRequired, done, jOf, avail, numConsumed>>

PollProducer(t) ==
    PollProducerLock(t) \/ PollProduce(t) \/ PollProducerUnlock(t) \/ PollProducerReturn(t)

PollTerminated ==
    /\ ~PollRunning
    /\ UNCHANGED pollVars

PollNext == PollMain \/ (\E t \in Producers : PollProducer(t)) \/ PollTerminated

PollSpec == PollInit /\ [][PollNext]_pollVars

-----------------------------------------------------------------------------
\* A unit is <<t, k>>: the k-th one of producer t.  A loop bounded by zero or a
\* negative count makes none.
Units(count) == UNION {{t} \X (1..count[t]) : t \in DOMAIN count}

ProducedBy(t) == IF prodAt[t] = "unlock" THEN jOf[t] + 1 ELSE jOf[t]
PollProduced == Cardinality(Units([t \in Producers |-> ProducedBy(t)]))

\* The units all producers make between them.
UnitsRequested == Cardinality(Units(argv))

NoneNegative == \A t \in Producers : argv[t] >= 0

(***************************************************************************)
(* Each unit any producer made is either available or consumed, in every   *)
(* interleaving of the producers with the polling main().                  *)
(***************************************************************************)
PollNoUnitLost == PollProduced = numConsumed + avail

(***************************************************************************)
(* prod_no_condvar.c:52 calls totalRequired the "Total number of units     *)
(* that all threads will produce": when main() returns because it has      *)
(* consumed that many, no producer has a unit left to make or to hand over,*)
(* unless an argument was negative: it lowers totalRequired, and no        *)
(* producer makes the difference good.                                     *)
(***************************************************************************)
ExitMeansAllConsumed ==
    mainAt = "exit_ok" /\ NoneNegative =>
        numConsumed = UnitsRequested /\ avail = 0

(***************************************************************************)
(* If at least one unit is asked for, the polling loop ends.  (With no     *)
(* unit to consume, done is never computed and main() polls for ever.)     *)
(***************************************************************************)
PollingEnds == UnitsRequested > 0 ~> mainAt \in PollEnded

\* The state of the abstract transfer in terms of this program's.
PollTransfer == INSTANCE UnitTransfer WITH
    units   <- UnitsRequested,
    made    <- PollProduced,
    held    <- avail,
    taken   <- numConsumed,
    outcome <- IF PollRunning THEN "running"
               ELSE IF mainAt = "exit_ok" /\ NoneNegative THEN "complete" ELSE "gave_up"

(***************************************************************************)
(* The polling program implements the abstract transfer.  With a negative  *)
(* argument it may return early, which is giving up.                       *)
(***************************************************************************)
PollImplementsTransfer == PollTransfer!Spec
=============================================================================
