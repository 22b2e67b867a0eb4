----------------------- MODULE ProducerConsumerProofs -----------------------
(***************************************************************************)
(* Safety of producer_consumer_model.c for every TOTAL_COUNT and every     *)
(* SignalEvery.                                                            *)
(***************************************************************************)
EXTENDS ProducerConsumer, TLAPS

(***************************************************************************)
(* Arithmetic of the signalling period: counting down from a number that   *)
(* is not a multiple of the period lowers the remainder by one.            *)
(***************************************************************************)
LEMMA RemainderStep ==
    ASSUME NEW k \in Nat \ {0}, NEW e \in Nat \ {0}, k % e # 0
    PROVE  k % e = ((k - 1) % e) + 1
  <1> DEFINE q == k \div e
             r == k % e
             p == (k - 1) \div e
             t == (k - 1) % e
  <1>1. q \in Int /\ r \in 0..(e - 1) /\ k = e * q + r
    BY SMT
  <1>2. p \in Int /\ t \in 0..(e - 1) /\ k - 1 = e * p + t
    BY SMT
  <1> HIDE DEF q, r, p, t
  <1>3. r # 0
    BY DEF r
  <1>4. q = p
    <2>1. e * (q - p) = t - (r - 1)
      BY <1>1, <1>2, SMT
    <2>2. ASSUME q > p PROVE e * (q - p) >= e
      BY <2>2, <1>1, <1>2, SMT
    <2>3. ASSUME q < p PROVE e * (q - p) <= -e
      BY <2>3, <1>1, <1>2, SMT
    <2> QED
      BY <2>1, <2>2, <2>3, <1>1, <1>2, <1>3, SMT
  <1>5. r = t + 1
    BY <1>1, <1>2, <1>4, SMT
  <1> QED
    BY <1>5 DEF r, t

\* A remainder is a natural number.
LEMMA RemainderNat ==
    ASSUME NEW k \in Nat, NEW e \in Nat \ {0}
    PROVE  k % e \in Nat
  OBVIOUS

-----------------------------------------------------------------------------
(***************************************************************************)
(* The inductive invariant.  NoUnitLost and SleeperBacklog are inductive   *)
(* only together with who owns the mutex at which program point (a sleeper *)
(* has seen available = 0, which the producer cannot change while the      *)
(* consumer looks) and with where main() and the producer stand.           *)
(***************************************************************************)
OwnerInv ==
    /\ prod \in {"produce", "unlock"} <=> mtx = "producer"
    /\ cons \in {"check", "drain", "unlock"} <=> mtx = "consumer"
    /\ "consumer" \in waiters => cons = "wait"

LoopInv ==
    /\ main = "create_prod" => prod = "absent"
    /\ main \in {"create_prod", "create_cons"} => cons = "absent"
    /\ prod = "absent" => j = 0
    /\ prod \in {"produce", "unlock", "signal"} => j < TOTAL_COUNT
    /\ prod = "done" => j = TOTAL_COUNT
    /\ cons = "done" => consumed = TOTAL_COUNT

IndInv == TypeOK /\ OwnerInv /\ LoopInv /\ NoUnitLost /\ SleeperBacklog

\* The initial state satisfies the invariant.
LEMMA IndInvInit == Init => IndInv
  BY CountAssumption, ThreadAssumption
  DEF Init, SyncInit, IndInv, TypeOK, Exited, OwnerInv, LoopInv, NoUnitLost,
      SleeperBacklog, Produced

\* A step of main() changes no counter, owner or sleeper.
LEMMA MainPreserves == IndInv /\ Main => IndInv'
  <1> SUFFICES ASSUME IndInv, Main PROVE IndInv'
    OBVIOUS
  <1> USE DEF IndInv, TypeOK, Exited, OwnerInv, LoopInv, NoUnitLost,
              SleeperBacklog, Produced, sync
  <1>1. CASE CreateProducer
    BY <1>1 DEF CreateProducer
  <1>2. CASE CreateConsumer
    BY <1>2 DEF CreateConsumer
  <1>3. CASE JoinProducer
    BY <1>3 DEF JoinProducer
  <1>4. CASE JoinConsumer
    BY <1>4 DEF JoinConsumer
  <1> QED
    BY <1>1, <1>2, <1>3, <1>4 DEF Main

\* A step of producer(); the signal step is where the backlog bound is used.
LEMMA ProducerPreserves == IndInv /\ Producer => IndInv'
  <1> SUFFICES ASSUME IndInv, Producer PROVE IndInv'
    OBVIOUS
  <1> USE CountAssumption, EveryAssumption, ThreadAssumption
      DEF IndInv, TypeOK, Exited, OwnerInv, LoopInv, sync
  <1>1. CASE ProducerLock
    BY <1>1 DEF ProducerLock, MutexLock, NoUnitLost, SleeperBacklog, Produced
  <1>2. CASE Produce
    BY <1>2 DEF Produce, NoUnitLost, SleeperBacklog, Produced
  <1>3. CASE ProducerUnlock
    BY <1>3 DEF ProducerUnlock, MutexUnlock, NoUnitLost, SleeperBacklog, Produced
  <1>4. CASE ProducerSignal
    <2>1. mtx' = mtx /\ waiters' \in SUBSET waiters
      BY <1>4 DEF ProducerSignal, CondSignal
    <2>2. TypeOK' /\ OwnerInv' /\ LoopInv' /\ NoUnitLost'
      BY <2>1, <1>4 DEF ProducerSignal, NoUnitLost, Produced
    <2>3. SleeperBacklog'
      <3>1. CASE SignalDue
        \* The only possible sleeper has been woken.
        BY <3>1, <1>4 DEF ProducerSignal, CondSignal, SleeperBacklog
      <3>2. CASE ~SignalDue
        <4>1. j \in Nat \ {0} /\ j % SignalEvery # 0
          BY <3>2 DEF SignalDue
        <4>2. j % SignalEvery = ((j - 1) % SignalEvery) + 1
          BY <4>1, RemainderStep
        <4>3. (j + 1) - 1 = j /\ j + 1 # 0
          BY <4>1
        <4>4. /\ waiters' = waiters /\ available' = available
              /\ j' = j + 1 /\ Produced = j + 1 /\ Produced' = j + 1
          BY <3>2, <1>4 DEF ProducerSignal, Produced
        <4>5. "consumer" \in waiters => available <= ((j - 1) % SignalEvery) + 1
          BY <4>1, <4>4 DEF SleeperBacklog
        <4> QED
          BY <4>1, <4>2, <4>3, <4>4, <4>5 DEF SleeperBacklog
      <3> QED
        BY <3>1, <3>2
    <2> QED
      BY <2>2, <2>3
  <1>5. CASE ProducerReturn
    BY <1>5 DEF ProducerReturn, NoUnitLost, SleeperBacklog, Produced
  <1> QED
    BY <1>1, <1>2, <1>3, <1>4, <1>5 DEF Producer

\* A step of consumer(); it goes to sleep only on available = 0.
LEMMA ConsumerPreserves == IndInv /\ Consumer => IndInv'
  <1> SUFFICES ASSUME IndInv, Consumer PROVE IndInv'
    OBVIOUS
  <1> USE CountAssumption, EveryAssumption, ThreadAssumption
      DEF IndInv, TypeOK, Exited, OwnerInv, LoopInv, NoUnitLost, Produced, sync
  <1>1. CASE ConsumerTest
    BY <1>1 DEF ConsumerTest, SleeperBacklog
  <1>2. CASE ConsumerLock
    BY <1>2 DEF ConsumerLock, MutexLock, SleeperBacklog
  <1>3. CASE ConsumerCheck
    <2>1. TypeOK' /\ OwnerInv' /\ LoopInv' /\ NoUnitLost'
      BY <1>3 DEF ConsumerCheck, CondWait
    <2>2. SleeperBacklog'
      <3>1. j # 0 => (j - 1) % SignalEvery \in Nat
        BY RemainderNat
      <3> QED
        BY <3>1, <1>3 DEF ConsumerCheck, CondWait, SleeperBacklog
    <2> QED
      BY <2>1, <2>2
  <1>4. CASE ConsumerWake
    BY <1>4 DEF ConsumerWake, CondReturn, MutexLock, SleeperBacklog
  <1>5. CASE Drain
    BY <1>5 DEF Drain, SleeperBacklog
  <1>6. CASE ConsumerUnlock
    BY <1>6 DEF ConsumerUnlock, MutexUnlock, SleeperBacklog
  <1> QED
    BY <1>1, <1>2, <1>3, <1>4, <1>5, <1>6 DEF Consumer

\* Every step of the specification preserves the invariant.
LEMMA IndInvStep == IndInv /\ [Next]_vars => IndInv'
  <1> SUFFICES ASSUME IndInv, [Next]_vars PROVE IndInv'
    OBVIOUS
  <1>1. CASE ConsumerSpurious
    BY <1>1 DEF ConsumerSpurious, SpuriousWakeup, IndInv, TypeOK, Exited,
                OwnerInv, LoopInv, NoUnitLost, SleeperBacklog, Produced
  <1>2. CASE UNCHANGED vars
    BY <1>2 DEF vars, sync, IndInv, TypeOK, Exited, OwnerInv, LoopInv,
                NoUnitLost, SleeperBacklog, Produced
  <1> QED
    BY <1>1, <1>2, MainPreserves, ProducerPreserves, ConsumerPreserves
    DEF Next, Terminated

\* The invariant holds throughout every behavior of the program.
THEOREM IndInvAlways == Spec => []IndInv
  BY IndInvInit, IndInvStep, PTL DEF Spec

\* Type correctness, counters within 0..TOTAL_COUNT included.
THEOREM TypeCorrect == Spec => []TypeOK
  <1>1. IndInv => TypeOK
    BY DEF IndInv
  <1> QED
    BY <1>1, IndInvAlways, PTL

\* Units are conserved across every interleaving of the two threads.
THEOREM UnitsConserved == Spec => []NoUnitLost
  <1>1. IndInv => NoUnitLost
    BY DEF IndInv
  <1> QED
    BY <1>1, IndInvAlways, PTL

\* The two critical regions exclude each other.
THEOREM Exclusion == Spec => []MutualExclusion
  <1>1. IndInv => MutualExclusion
    BY DEF IndInv, OwnerInv, MutualExclusion
  <1> QED
    BY <1>1, IndInvAlways, PTL

\* At most (TOTAL_COUNT - 1) % SignalEvery units are ever stranded behind a
\* sleeping consumer, for every count and every signalling period.
THEOREM StrandedUnits == Spec => []StrandedBound
  <1>1. IndInv => StrandedBound
    <2> SUFFICES ASSUME IndInv, prod = "done", "consumer" \in waiters
                 PROVE  available <= (TOTAL_COUNT - 1) % SignalEvery
      BY DEF StrandedBound
    <2>1. j = TOTAL_COUNT /\ j # 0 /\ Produced - j = 0
      BY CountAssumption DEF IndInv, LoopInv, Produced
    <2>2. (TOTAL_COUNT - 1) % SignalEvery \in Nat
      BY CountAssumption, EveryAssumption, RemainderNat
    <2> QED
      BY <2>1, <2>2 DEF IndInv, SleeperBacklog
  <1> QED
    BY <1>1, IndInvAlways, PTL

-----------------------------------------------------------------------------
\* The initial state of the program is one of the abstract transfer.
LEMMA TransferStarts == Init => Transfer!Init
  BY CountAssumption DEF Init, Transfer!Init, Produced

(***************************************************************************)
(* Every step of the program is a step of the abstract transfer or leaves  *)
(* its variables alone: Produce makes a unit, Drain takes one, JoinConsumer*)
(* completes, a failed pthread_create() gives up.                          *)
(***************************************************************************)
LEMMA TransferStepRefines == IndInv /\ [Next]_vars => [Transfer!Next]_(Transfer!utVars)
  <1> SUFFICES ASSUME IndInv, [Next]_vars
               PROVE  [Transfer!Next]_(Transfer!utVars)
    OBVIOUS
  <1> USE DEF Transfer!Next, Transfer!utVars, Produced
  <1>1. CASE Main
    <2>1. CASE CreateProducer
      BY <2>1 DEF CreateProducer, Transfer!GiveUp, IndInv, LoopInv
    <2>2. CASE CreateConsumer
      BY <2>2 DEF CreateConsumer, Transfer!GiveUp
    <2>3. CASE JoinProducer
      BY <2>3 DEF JoinProducer
    <2>4. CASE JoinConsumer
      BY <2>4 DEF JoinConsumer, Transfer!Complete, IndInv, LoopInv
    <2> QED
      BY <1>1, <2>1, <2>2, <2>3, <2>4 DEF Main
  <1>2. CASE Producer
    <2>1. CASE ProducerLock
      BY <2>1 DEF ProducerLock
    <2>2. CASE Produce
      BY <2>2 DEF Produce, Transfer!Make, Running, Exited, IndInv, LoopInv
    <2>3. CASE ProducerUnlock
      BY <2>3 DEF ProducerUnlock
    <2>4. CASE ProducerSignal
      BY <2>4 DEF ProducerSignal
    <2>5. CASE ProducerReturn
      BY <2>5 DEF ProducerReturn
    <2> QED
      BY <1>2, <2>1, <2>2, <2>3, <2>4, <2>5 DEF Producer
  <1>3. CASE Consumer
    <2>1. CASE Drain
      BY <2>1 DEF Drain, Transfer!Take, Running, Exited
    <2>2. CASE ConsumerTest \/ ConsumerLock \/ ConsumerCheck \/ ConsumerWake
               \/ ConsumerUnlock
      BY <2>2 DEF ConsumerTest, ConsumerLock, ConsumerCheck, ConsumerWake,
                  ConsumerUnlock
    <2> QED
      BY <1>3, <2>1, <2>2 DEF Consumer
  <1>4. CASE ConsumerSpurious
    BY <1>4 DEF ConsumerSpurious
  <1>5. CASE UNCHANGED vars
    BY <1>5 DEF vars
  <1> QED
    BY <1>1, <1>2, <1>3, <1>4, <1>5 DEF Next, Terminated

\* producer_consumer_model.c implements the abstract transfer of units.
THEOREM Refinement == Spec => ImplementsTransfer
  <1> QED
    BY TransferStarts, TransferStepRefines, IndInvAlways, PTL
    DEF Spec, ImplementsTransfer, Transfer!Spec
=============================================================================
