-------------------------- MODULE ProducerConsumer --------------------------
(***************************************************************************)
(* producer_consumer_model.c, built with USE_COND_VAR as the file defines  *)
(* it.  main creates one producer and one consumer thread and joins both.  *)
(* The producer makes TOTAL_COUNT units and signals the condition variable *)
(* after every SignalEvery-th of them; the consumer drains whatever is     *)
(* available and sleeps when it finds nothing.                             *)
(***************************************************************************)
EXTENDS PthreadSync, Integers

CONSTANTS
    TOTAL_COUNT,        \* units to produce; 20000 in the code
    SignalEvery         \* the producer signals when j % SignalEvery = 0; 10

ASSUME CountAssumption == TOTAL_COUNT \in Nat \ {0}
ASSUME EveryAssumption == SignalEvery \in Nat \ {0}
ASSUME ThreadAssumption == NoThread \notin {"producer", "consumer"}

VARIABLES
    main,               \* where main() is
    prod,               \* where producer() is
    cons,               \* where consumer() is
    j,                  \* the producer's loop counter
    available,          \* units made and not consumed
    consumed            \* units consumed

sync == <<mtx, waiters>>
vars == <<sync, main, prod, cons, j, available, consumed>>

Exited == {"exit_ok", "exit_fail"}
Running == main \notin Exited

Init ==
    /\ SyncInit
    /\ main = "create_prod"
    /\ prod = "absent"
    /\ cons = "absent"
    /\ j = 0 /\ available = 0 /\ consumed = 0

-----------------------------------------------------------------------------
(* main(): a failed pthread_create() ends the process.                      *)

CreateProducer ==
    /\ main = "create_prod"
    /\ \/ main' = "create_cons" /\ prod' = "loop"
       \/ main' = "exit_fail" /\ UNCHANGED prod
    /\ UNCHANGED <<sync, cons, j, available, consumed>>

CreateConsumer ==
    /\ main = "create_cons"
    /\ \/ main' = "join_prod" /\ cons' = "test"
       \/ main' = "exit_fail" /\ UNCHANGED cons
    /\ UNCHANGED <<sync, prod, j, available, consumed>>

JoinProducer ==
    /\ main = "join_prod"
    /\ prod = "done"
    /\ main' = "join_cons"
    /\ UNCHANGED <<sync, prod, cons, j, available, consumed>>

\* A main() that returns without joining the consumer.
JoinConsumerForgotten ==
    /\ main = "join_cons"
    /\ main' = "exit_ok"
    /\ UNCHANGED <<sync, prod, cons, j, available, consumed>>

JoinConsumer ==
    /\ main = "join_cons"
    /\ cons = "done"
    /\ main' = "exit_ok"
    /\ UNCHANGED <<sync, prod, cons, j, available, consumed>>

Main == CreateProducer \/ CreateConsumer \/ JoinProducer \/ JoinConsumer

-----------------------------------------------------------------------------
(* producer(): one action per step another thread can observe.              *)

ProducerLock ==
    /\ Running
    /\ prod = "loop"
    /\ j < TOTAL_COUNT
    /\ MutexLock("producer")
    /\ prod' = "produce"
    /\ UNCHANGED <<main, cons, j, available, consumed>>

\* A producer that makes two units in one iteration.
ProduceTwice ==
    /\ Running
    /\ prod = "produce"
    /\ available' = available + 2
    /\ prod' = "unlock"
    /\ UNCHANGED <<sync, main, cons, j, consumed>>

Produce ==
    /\ Running
    /\ prod = "produce"
    /\ available' = available + 1
    /\ prod' = "unlock"
    /\ UNCHANGED <<sync, main, cons, j, consumed>>

ProducerUnlock ==
    /\ Running
    /\ prod = "unlock"
    /\ MutexUnlock("producer")
    /\ prod' = "signal"
    /\ UNCHANGED <<main, cons, j, available, consumed>>

\* A producer that wakes the consumer for the first unit only.
SignalDueFirstOnly == j = 0

\* The condition under which an iteration signals.
SignalDue == j % SignalEvery = 0

ProducerSignal ==
    /\ Running
    /\ prod = "signal"
    /\ IF SignalDue THEN CondSignal ELSE UNCHANGED sync
    /\ j' = j + 1
    /\ prod' = "loop"
    /\ UNCHANGED <<main, cons, available, consumed>>

ProducerReturn ==
    /\ Running
    /\ prod = "loop"
    /\ j >= TOTAL_COUNT
    /\ prod' = "done"
    /\ UNCHANGED <<sync, main, cons, j, available, consumed>>

Producer ==
    ProducerLock \/ Produce \/ ProducerUnlock \/ ProducerSignal \/ ProducerReturn

-----------------------------------------------------------------------------
(* consumer(): the test of the outer loop reads consumed without the mutex, *)
(* which is harmless because only the consumer writes it.                   *)

ConsumerTest ==
    /\ Running
    /\ cons = "test"
    /\ cons' = IF consumed # TOTAL_COUNT THEN "lock" ELSE "done"
    /\ UNCHANGED <<sync, main, prod, j, available, consumed>>

ConsumerLock ==
    /\ Running
    /\ cons = "lock"
    /\ MutexLock("consumer")
    /\ cons' = "check"
    /\ UNCHANGED <<main, prod, j, available, consumed>>

\* while (available == 0) pthread_cond_wait(&cond, &mtx);
ConsumerCheck ==
    /\ Running
    /\ cons = "check"
    /\ \/ /\ available = 0
          /\ CondWait("consumer")
          /\ cons' = "wait"
       \/ /\ available # 0
          /\ cons' = "drain"
          /\ UNCHANGED sync
    /\ UNCHANGED <<main, prod, j, available, consumed>>

ConsumerWake ==
    /\ Running
    /\ cons = "wait"
    /\ CondReturn("consumer")
    /\ cons' = "check"
    /\ UNCHANGED <<main, prod, j, available, consumed>>

\* A drain whose test is off by one: available >= 0 instead of available > 0.
DrainTooMany ==
    /\ Running
    /\ cons = "drain"
    /\ \/ /\ available >= 0
          /\ consumed' = consumed + 1
          /\ available' = available - 1
          /\ UNCHANGED cons
       \/ /\ available < 0
          /\ cons' = "unlock"
          /\ UNCHANGED <<available, consumed>>
    /\ UNCHANGED <<sync, main, prod, j>>

\* while (available > 0): one unit a step, then out of the loop.
Drain ==
    /\ Running
    /\ cons = "drain"
    /\ \/ /\ available > 0
          /\ consumed' = consumed + 1
          /\ available' = available - 1
          /\ UNCHANGED cons
       \/ /\ available <= 0
          /\ cons' = "unlock"
          /\ UNCHANGED <<available, consumed>>
    /\ UNCHANGED <<sync, main, prod, j>>

ConsumerUnlock ==
    /\ Running
    /\ cons = "unlock"
    /\ MutexUnlock("consumer")
    /\ cons' = "test"
    /\ UNCHANGED <<main, prod, j, available, consumed>>

Consumer ==
    \/ ConsumerTest \/ ConsumerLock \/ ConsumerCheck \/ ConsumerWake
    \/ Drain \/ ConsumerUnlock

ConsumerSpurious ==
    /\ Running
    /\ SpuriousWakeup("consumer")
    /\ UNCHANGED <<main, prod, cons, j, available, consumed>>

\* The process is gone; nothing runs any more.
Terminated ==
    /\ ~Running
    /\ UNCHANGED vars

Next == Main \/ Producer \/ Consumer \/ ConsumerSpurious \/ Terminated

Spec == Init /\ [][Next]_vars

(***************************************************************************)
(* Every thread that can run does run, and a thread that keeps finding the *)
(* mutex free in between eventually gets it.  Nothing makes a spurious     *)
(* wakeup happen.                                                          *)
(***************************************************************************)
Fairness ==
    /\ WF_vars(Main)
    /\ WF_vars(Producer)
    /\ WF_vars(Consumer)
    /\ SF_vars(ProducerLock)
    /\ SF_vars(ConsumerLock)
    /\ SF_vars(ConsumerWake)

FairSpec == Spec /\ Fairness

-----------------------------------------------------------------------------
\* Units made so far: the one of this iteration counts once it is available.
Produced == IF prod \in {"unlock", "signal"} THEN j + 1 ELSE j

\* Every variable of the three threads has its type, and no counter leaves
\* 0..TOTAL_COUNT.
TypeOK ==
    /\ mtx \in {NoThread, "producer", "consumer"}
    /\ waiters \in SUBSET {"consumer"}
    /\ main \in {"create_prod", "create_cons", "join_prod", "join_cons"} \union Exited
    /\ prod \in {"absent", "loop", "produce", "unlock", "signal", "done"}
    /\ cons \in {"absent", "test", "lock", "check", "wait", "drain", "unlock", "done"}
    /\ j \in 0..TOTAL_COUNT
    /\ available \in 0..TOTAL_COUNT
    /\ consumed \in 0..TOTAL_COUNT

(***************************************************************************)
(* No unit is lost or consumed twice: between any two steps of the two     *)
(* threads the units made are the ones consumed plus the ones available.   *)
(* The consumer's test is consumed != TOTAL_COUNT, so a unit counted twice *)
(* would make it overshoot and never stop.                                 *)
(***************************************************************************)
NoUnitLost == Produced = consumed + available

(***************************************************************************)
(* The counters are touched by one thread at a time: producer() and        *)
(* consumer() are never both inside their critical regions, also when the  *)
(* consumer got the mutex back from pthread_cond_wait().                   *)
(***************************************************************************)
MutualExclusion ==
    ~ (prod \in {"produce", "unlock"} /\ cons \in {"check", "drain", "unlock"})

(***************************************************************************)
(* While the consumer sleeps in pthread_cond_wait(), the units piled up    *)
(* are at most those made since the last iteration that signalled.         *)
(***************************************************************************)
SleeperBacklog ==
    "consumer" \in waiters =>
        available <= (IF j = 0 THEN 0 ELSE (j - 1) % SignalEvery) + (Produced - j)

(***************************************************************************)
(* What the sparse signalling can cost: when producer() has returned and   *)
(* consumer() still sleeps, at most (TOTAL_COUNT - 1) % SignalEvery units  *)
(* are stranded: none if the last iteration signals, nine for 20000 and 10.*)
(***************************************************************************)
StrandedBound ==
    prod = "done" /\ "consumer" \in waiters =>
        available <= (TOTAL_COUNT - 1) % SignalEvery

(***************************************************************************)
(* producer_consumer_model.c:18 calls TOTAL_COUNT the number of units that *)
(* "will be produced and consumed": unless a thread could not be created,  *)
(* all of them eventually are, and the process then ends.                  *)
(***************************************************************************)
AllConsumed ==
    <>(main = "exit_fail" \/ (main = "exit_ok" /\ consumed = TOTAL_COUNT))

\* The state of the abstract transfer in terms of this program's.
Transfer == INSTANCE UnitTransfer WITH
    units   <- TOTAL_COUNT,
    made    <- Produced,
    held    <- available,
    taken   <- consumed,
    outcome <- CASE main = "exit_ok"   -> "complete"
                 [] main = "exit_fail" -> "gave_up"
                 [] OTHER              -> "running"

(***************************************************************************)
(* The program implements the abstract transfer: no unit is consumed       *)
(* before it is made, and main() returns only after the last one is.       *)
(***************************************************************************)
ImplementsTransfer == Transfer!Spec
=============================================================================
