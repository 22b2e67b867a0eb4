------------------------ MODULE ThreadProgramsProofs ------------------------
(***************************************************************************)
(* The safety of the thread programs, whatever the number of threads, of   *)
(* arguments and of loops.  Each program has an inductive invariant over   *)
(* its own variables, which the others leave alone.                        *)
(***************************************************************************)
EXTENDS ThreadPrograms, FiniteSetTheorems, TLAPS

-----------------------------------------------------------------------------
(* thread_joinTerm.c.                                                       *)

Ended == {t \in Threads : status[t] = "TERMINATED"}
Joined == {t \in Threads : status[t] = "JOIN"}

\* The joiner is none of the workers, and an unlocked mutex has no owner.
LEMMA Identities ==
    /\ JOINER \notin Threads
    /\ NoThread \notin Threads
    /\ NoThread # JOINER
  BY ThreadNumAssumption, NoThreadAssumption DEF JOINER, Threads

\* There are THREADNUM threads.
LEMMA ThreadsSize == IsFiniteSet(Threads) /\ Cardinality(Threads) = THREADNUM
  BY FS_Interval, ThreadNumAssumption DEF Threads

\* A set of threads has at most THREADNUM members, and that many only if it
\* holds all of them.
LEMMA SubsetSize ==
    ASSUME NEW S \in SUBSET Threads
    PROVE  /\ IsFiniteSet(S)
           /\ Cardinality(S) \in 0..THREADNUM
           /\ Cardinality(S) = THREADNUM => S = Threads
  <1>1. IsFiniteSet(S) /\ Cardinality(S) <= THREADNUM
        /\ (Cardinality(S) = THREADNUM => S = Threads)
    BY ThreadsSize, FS_Subset
  <1>2. Cardinality(S) \in Nat
    BY <1>1, FS_CardinalityType
  <1> QED
    BY <1>1, <1>2, ThreadNumAssumption

-----------------------------------------------------------------------------
(***************************************************************************)
(* The inductive invariant.  The counters agree with the statuses only     *)
(* because each pair is changed in one critical region, which OwnerInv     *)
(* gives; that a status is what the position of its thread says (StatusInv)*)
(* makes the unlocked status = ALIVE of a starting thread harmless and     *)
(* pthread_join() under the mutex safe.                                    *)
(***************************************************************************)
OwnerInv ==
    /\ \A t \in Threads : sim[t] \in {"critical", "unlock"} <=> mtx = t
    /\ join \in {"check", "scan", "join"} <=> mtx = JOINER
    /\ JOINER \in waiters => join = "wait"

StatusInv ==
    \A t \in Threads :
      /\ status[t] = "ALIVE" <=> sim[t] \in {"absent", "start", "lock", "critical"}
      /\ status[t] = "JOIN" => sim[t] = "done"

PositionInv ==
    /\ main = "create_joiner" => join = "absent"
    /\ \A t \in Threads : sim[t] = "absent" <=> t >= created
    /\ join = "join" => idx < THREADNUM /\ status[idx] = "TERMINATED"
    /\ join = "done" => joinedNum = THREADNUM

IndInv == TypeOK /\ OwnerInv /\ StatusInv /\ PositionInv /\ CountersAgree

\* The initial state satisfies the invariant: no thread is terminated or joined.
LEMMA IndInvInit == Init => IndInv
  <1> SUFFICES ASSUME Init PROVE IndInv
    OBVIOUS
  <1>1. Ended = {} /\ Joined = {}
    BY DEF Init, Ended, Joined
  <1>2. CountersAgree
    BY <1>1, FS_EmptySet DEF Init, CountersAgree, Ended, Joined
  <1>3. TypeOK /\ OwnerInv /\ StatusInv /\ PositionInv
    BY Identities, ThreadNumAssumption
    DEF Init, SyncInit, TypeOK, OwnerInv, StatusInv, PositionInv, Threads
  <1> QED
    BY <1>2, <1>3 DEF IndInv

\* Steps that leave the statuses and the counters alone keep their agreement.
LEMMA CountersKept ==
    ASSUME CountersAgree, UNCHANGED data
    PROVE  CountersAgree'
  BY DEF CountersAgree, data

\* A step of main(): a thread it creates was absent and has the status ALIVE.
LEMMA MainPreserves == IndInv /\ Main => IndInv'
  <1> SUFFICES ASSUME IndInv, Main PROVE IndInv'
    OBVIOUS
  <1> USE ThreadNumAssumption, Identities DEF TypeOK, OwnerInv, StatusInv, PositionInv, sync, data
  <1>1. CountersAgree'
    BY CountersKept DEF Main, CreateJoiner, Create, JoinJoiner, IndInv
  <1>2. CASE CreateJoiner
    BY <1>1, <1>2 DEF CreateJoiner, IndInv
  <1>3. CASE Create
    <2>1. created \in Threads
      BY <1>3 DEF Create, IndInv, Threads
    <2> QED
      BY <1>1, <1>3, <2>1 DEF Create, IndInv, Threads
  <1>4. CASE JoinJoiner
    BY <1>1, <1>4 DEF JoinJoiner, IndInv
  <1> QED
    BY <1>2, <1>3, <1>4 DEF Main

\* A step of simulation(): Critical() moves one thread from ALIVE to
\* TERMINATED and counts it.
LEMMA SimulationPreserves ==
    ASSUME IndInv, NEW t \in Threads, Simulation(t)
    PROVE  IndInv'
  <1> USE ThreadNumAssumption, Identities DEF TypeOK, OwnerInv, StatusInv, PositionInv, sync, data
  <1>1. CASE Start(t)
    <2>1. status' = status
      BY <1>1 DEF Start, IndInv
    <2>2. CountersAgree'
      BY <1>1, <2>1, CountersKept DEF Start, IndInv
    <2> QED
      BY <1>1, <2>1, <2>2 DEF Start, IndInv
  <1>2. CASE Lock(t)
    <2>1. CountersAgree'
      BY <1>2, CountersKept DEF Lock, IndInv
    <2> QED
      BY <1>2, <2>1 DEF Lock, MutexLock, IndInv
  <1>3. CASE Critical(t)
    <2>1. status[t] = "ALIVE" /\ t \notin Ended
      BY <1>3 DEF Critical, IndInv, Ended
    <2>2. Ended' = Ended \union {t} /\ Joined' = Joined
      BY <1>3, <2>1 DEF Critical, IndInv, Ended, Joined
    <2>3. IsFiniteSet(Ended) /\ Cardinality(Ended') \in 0..THREADNUM
      BY <2>2, SubsetSize DEF Ended
    <2>4. Cardinality(Ended') = Cardinality(Ended) + 1
      BY <2>1, <2>2, <2>3, FS_AddElement
    <2>5. CountersAgree'
      BY <1>3, <2>2, <2>4 DEF Critical, CountersAgree, IndInv, Ended, Joined
    <2>6. termNum' \in 0..THREADNUM
      BY <2>3, <2>5 DEF CountersAgree, Ended
    <2>7. idx < THREADNUM => idx \in Threads
      BY DEF IndInv, Threads
    <2> QED
      BY <1>3, <2>1, <2>5, <2>6, <2>7 DEF Critical, IndInv
  <1>4. CASE Unlock(t)
    <2>1. CountersAgree'
      BY <1>4, CountersKept DEF Unlock, IndInv
    <2> QED
      BY <1>4, <2>1 DEF Unlock, MutexUnlock, IndInv
  <1>5. CASE Signal(t)
    <2>1. mtx' = mtx /\ waiters' \in SUBSET waiters
      BY <1>5 DEF Signal, CondSignal
    <2>2. CountersAgree'
      BY <1>5, CountersKept DEF Signal, IndInv
    <2> QED
      BY <1>5, <2>1, <2>2 DEF Signal, IndInv
  <1> QED
    BY <1>1, <1>2, <1>3, <1>4, <1>5 DEF Simulation

\* A step of joiner(): JoinerJoin moves one thread from TERMINATED to JOIN and
\* changes both counters.
LEMMA JoinerPreserves == IndInv /\ (Joiner \/ JoinerSpurious) => IndInv'
  <1> SUFFICES ASSUME IndInv, Joiner \/ JoinerSpurious PROVE IndInv'
    OBVIOUS
  <1> USE ThreadNumAssumption, Identities DEF TypeOK, OwnerInv, StatusInv, PositionInv, sync, data
  <1>1. CASE JoinerJoin
    <2>1. idx \in Threads /\ status[idx] = "TERMINATED" /\ sim[idx] = "done"
      BY <1>1 DEF JoinerJoin, IndInv, Threads
    <2>2. Ended' = Ended \ {idx} /\ Joined' = Joined \union {idx}
      BY <1>1, <2>1 DEF JoinerJoin, IndInv, Ended, Joined
    <2>3. idx \in Ended /\ idx \notin Joined
      BY <2>1 DEF Ended, Joined
    <2>4. /\ IsFiniteSet(Ended) /\ IsFiniteSet(Joined)
          /\ Cardinality(Ended) \in 0..THREADNUM /\ Cardinality(Joined) \in 0..THREADNUM
      BY SubsetSize DEF Ended, Joined
    <2>5. Cardinality(Ended') \in 0..THREADNUM /\ Cardinality(Joined') \in 0..THREADNUM
      BY <2>1, <2>2, SubsetSize DEF Ended, Joined
    <2>6. Cardinality(Ended') = Cardinality(Ended) - 1
      BY <2>2, <2>3, <2>4, FS_RemoveElement
    <2>7. Cardinality(Joined') = Cardinality(Joined) + 1
      BY <2>2, <2>3, <2>4, FS_AddElement
    <2>8. CountersAgree'
      BY <1>1, <2>6, <2>7 DEF JoinerJoin, CountersAgree, IndInv, Ended, Joined
    <2>9. termNum' \in 0..THREADNUM /\ joinedNum' \in 0..THREADNUM
      BY <2>5, <2>8 DEF CountersAgree, Ended, Joined
    <2> QED
      BY <1>1, <2>1, <2>8, <2>9 DEF JoinerJoin, IndInv
  <1>2. CASE ~JoinerJoin
    <2>1. CountersAgree'
      BY <1>2, CountersKept DEF Joiner, JoinerSpurious, JoinerTest, JoinerLock,
         JoinerCheck, JoinerWoken, JoinerScan, JoinerUnlock, IndInv
    <2>2. CASE JoinerTest
      BY <2>1, <2>2 DEF JoinerTest, IndInv
    <2>3. CASE JoinerLock
      BY <2>1, <2>3 DEF JoinerLock, MutexLock, IndInv
    <2>4. CASE JoinerCheck
      BY <2>1, <2>4 DEF JoinerCheck, CondWait, IndInv
    <2>5. CASE JoinerWoken
      BY <2>1, <2>5 DEF JoinerWoken, CondReturn, MutexLock, IndInv
    <2>6. CASE JoinerScan
      BY <2>1, <2>6 DEF JoinerScan, IndInv
    <2>7. CASE JoinerUnlock
      BY <2>1, <2>7 DEF JoinerUnlock, MutexUnlock, IndInv
    <2>8. CASE JoinerSpurious
      BY <2>1, <2>8 DEF JoinerSpurious, SpuriousWakeup, IndInv
    <2> QED
      BY <1>2, <2>2, <2>3, <2>4, <2>5, <2>6, <2>7, <2>8 DEF Joiner
  <1> QED
    BY <1>1, <1>2

\* Every step preserves the invariant.
LEMMA IndInvNext == IndInv /\ [Next]_vars => IndInv'
  <1> SUFFICES ASSUME IndInv, [Next]_vars PROVE IndInv'
    OBVIOUS
  <1>1. CASE UNCHANGED vars
    BY <1>1 DEF vars, sync, data, IndInv, TypeOK, OwnerInv, StatusInv, PositionInv,
                CountersAgree
  <1> QED
    BY <1>1, MainPreserves, SimulationPreserves, JoinerPreserves DEF Next, Terminated

\* The invariant holds in every reachable state.
THEOREM IndInvAlways == Spec => []IndInv
  BY IndInvInit, IndInvNext, PTL DEF Spec

-----------------------------------------------------------------------------
\* No counter of thread_joinTerm.c leaves 0..THREADNUM.
THEOREM TypeCorrect == Spec => []TypeOK
  <1>1. IndInv => TypeOK
    BY DEF IndInv
  <1> QED
    BY <1>1, IndInvAlways, PTL

\* termNum and joinedNum count the statuses joiner() acts on, whatever the
\* order in which simulation() threads end and are joined.
THEOREM CountersRight == Spec => []CountersAgree
  <1>1. IndInv => CountersAgree
    BY DEF IndInv
  <1> QED
    BY <1>1, IndInvAlways, PTL

\* pthread_join() with the mutex held only ever waits for a thread that does
\* not need the mutex any more, and a thread marked joined has returned.
THEOREM JoinSafe == Spec => []JoinIsSafe
  <1>1. IndInv => JoinIsSafe
    <2> SUFFICES ASSUME IndInv PROVE JoinIsSafe
      OBVIOUS
    <2>1. ASSUME join = "join" PROVE sim[idx] \in {"signal", "done"}
      <3>1. idx \in Threads /\ status[idx] = "TERMINATED"
        BY <2>1, ThreadNumAssumption DEF IndInv, PositionInv, TypeOK, Threads
      <3>2. mtx = JOINER
        BY <2>1 DEF IndInv, OwnerInv
      <3>3. sim[idx] \notin {"critical", "unlock"}
        BY <3>1, <3>2, Identities DEF IndInv, OwnerInv
      <3>4. sim[idx] \notin {"absent", "start", "lock", "critical"}
        BY <3>1 DEF IndInv, StatusInv
      <3> QED
        BY <3>1, <3>3, <3>4 DEF IndInv, TypeOK
    <2> QED
      BY <2>1 DEF JoinIsSafe, IndInv, StatusInv
  <1> QED
    BY <1>1, IndInvAlways, PTL

-----------------------------------------------------------------------------
\* The initial state of the program is one of the abstract life cycle.
LEMMA LifeInit == Init => Life!Init
  BY DEF Init, Life!Init, LifeMap, Outcome

(***************************************************************************)
(* Every step is a step of the abstract life cycle or leaves its variables *)
(* alone: Critical() terminates a thread, JoinerJoin joins one, main()     *)
(* finishes when the joiner has or gives up when a thread cannot be made.  *)
(***************************************************************************)
LEMMA LifeStep == IndInv /\ [Next]_vars => [Life!Next]_(Life!lifeVars)
  <1> SUFFICES ASSUME IndInv, [Next]_vars PROVE [Life!Next]_(Life!lifeVars)
    OBVIOUS
  <1> USE DEF Life!lifeVars
  <1>1. CASE Main
    <2>1. CASE CreateJoiner
      BY <2>1 DEF CreateJoiner, data, Life!Next, Life!Finish, LifeMap, Outcome
    <2>2. CASE Create
      BY <2>2 DEF Create, data, Life!Next, Life!Finish, LifeMap, Outcome
    <2>3. CASE JoinJoiner
      <3>1. Cardinality(Joined) = THREADNUM
        BY <2>3 DEF JoinJoiner, IndInv, PositionInv, CountersAgree, Joined
      <3>2. Joined = Threads
        BY <3>1, SubsetSize DEF Joined
      <3>3. \A t \in Threads : status[t] = "JOIN"
        BY <3>2 DEF Joined
      <3> QED
        BY <2>3, <3>3 DEF JoinJoiner, data, Life!Next, Life!Finish, LifeMap, Outcome
    <2> QED
      BY <1>1, <2>1, <2>2, <2>3 DEF Main
  <1>2. ASSUME NEW t \in Threads, Simulation(t) PROVE [Life!Next]_(Life!lifeVars)
    <2>1. CASE Critical(t)
      <3>1. status[t] = "ALIVE" /\ status \in [Threads -> {"ALIVE", "TERMINATED", "JOIN"}]
        BY <2>1 DEF Critical, IndInv, StatusInv, TypeOK
      <3>2. Life!Terminate(t)
        BY <2>1, <3>1 DEF Critical, Running, Life!Terminate, Life!Change, LifeMap, Outcome
      <3> QED
        BY <3>2 DEF Life!Next
    <2>2. CASE Start(t)
      <3>1. status' = status
        BY <2>2 DEF Start, IndInv, StatusInv, TypeOK
      <3> QED
        BY <2>2, <3>1 DEF Start, LifeMap, Outcome
    <2>3. CASE Lock(t) \/ Unlock(t) \/ Signal(t)
      BY <2>3 DEF Lock, Unlock, Signal, data, LifeMap, Outcome
    <2> QED
      BY <1>2, <2>1, <2>2, <2>3 DEF Simulation
  <1>3. CASE JoinerJoin
    <2>1. idx \in Threads /\ status[idx] = "TERMINATED"
          /\ status \in [Threads -> {"ALIVE", "TERMINATED", "JOIN"}]
      BY <1>3, ThreadNumAssumption DEF JoinerJoin, IndInv, PositionInv, TypeOK, Threads
    <2>2. Life!Join(idx)
      BY <1>3, <2>1 DEF JoinerJoin, Running, Life!Join, Life!Change, LifeMap, Outcome
    <2> QED
      BY <2>1, <2>2 DEF Life!Next
  <1>4. CASE (Joiner /\ ~JoinerJoin) \/ JoinerSpurious
    BY <1>4 DEF Joiner, JoinerSpurious, JoinerTest, JoinerLock, JoinerCheck,
                JoinerWoken, JoinerScan, JoinerUnlock, data, LifeMap, Outcome
  <1>5. CASE UNCHANGED vars
    BY <1>5 DEF vars, data, LifeMap, Outcome
  <1> QED
    BY <1>1, <1>2, <1>3, <1>4, <1>5 DEF Next, Terminated

\* thread_joinTerm.c implements "alive ==> terminated ==> join".
THEOREM LifeRefinement == Spec => ImplementsThreadLife
  BY LifeInit, LifeStep, IndInvAlways, PTL DEF Spec, ImplementsThreadLife, Life!Spec

-----------------------------------------------------------------------------
(* thread_multijoin.c.                                                      *)

\* main() before the walk, or after it ("test").
Before == {"create", "test", "lock", "check", "wait"}

\* The threads that have set their state.
Past(t) == run[t] \in {"unlock", "signal", "done"}

MultijoinTypes ==
    /\ argc1 \in Nat
    /\ mjMain \in Before \union {"walk", "exit_ok", "exit_fail"}
    /\ mjIdx \in Nat
    /\ run \in [Multijoin!Threads ->
                  {"absent", "lock", "critical", "unlock", "signal", "done"}]
    /\ state \in [Multijoin!Threads -> {"ALIVE", "TERMINATED", "JOINED"}]
    /\ totThreads \in Int /\ numLive \in Int /\ numUnjoined \in Int

\* What main()'s position says of its counters: it sleeps only before the
\* walk, and after the walk no thread counts as live.
MainInv ==
    /\ mjMain = "create" =>
          /\ totThreads = 0 /\ numLive = 0 /\ mjIdx <= argc1
          /\ \A t \in Multijoin!Threads : t >= mjIdx => run[t] = "absent"
    /\ mjMain \in {"test", "lock", "check", "wait", "walk"} => totThreads = argc1
    /\ mjMain = "test" => numLive \in {0, totThreads}
    /\ mjMain \in {"lock", "check", "wait"} => numLive = totThreads /\ totThreads > 0
    /\ mjMain = "walk" => /\ totThreads > 0 /\ mjIdx <= totThreads
                          /\ numLive = totThreads - mjIdx

\* Who owns the mutex.
MutexInv ==
    /\ mjMain \in {"check", "walk"} => mjMtx = -1
    /\ \A t \in Multijoin!Threads : run[t] \in {"critical", "unlock"} => mjMtx = t

\* Until main() has reached it, the state of a thread is the thread's own.
StateInv ==
    /\ mjMain \in Before /\ numLive = totThreads =>
          \A t \in Multijoin!Threads : state[t] = "TERMINATED" <=> Past(t)
    /\ mjMain = "walk" =>
          \A t \in Multijoin!Threads :
              t >= mjIdx => (state[t] = "TERMINATED" <=> Past(t))

\* The terminated threads, as numUnjoined is to count them.
Terms == {t \in Multijoin!Threads : state[t] = "TERMINATED"}

CountInv ==
    mjMain \in Before /\ numLive = totThreads => numUnjoined = Cardinality(Terms)

MultijoinInv == MultijoinTypes /\ MainInv /\ MutexInv /\ StateInv /\ CountInv

\* There are finitely many terminated threads.
LEMMA TermsFinite ==
    ASSUME MultijoinTypes
    PROVE  IsFiniteSet(Terms) /\ Cardinality(Terms) \in Nat
<1>1. IsFiniteSet(0..(argc1 - 1))
  BY FS_Interval DEF MultijoinTypes
<1>2. Terms \in SUBSET (0..(argc1 - 1))
  BY DEF Terms, Multijoin!Threads
<1>3. IsFiniteSet(Terms)
  BY <1>1, <1>2, FS_Subset
<1> QED BY <1>3, FS_CardinalityType

\* thread_multijoin.c starts with no thread and nothing counted.
LEMMA MultijoinStart ==
    Multijoin!Init => MultijoinInv
<1> SUFFICES ASSUME Multijoin!Init PROVE MultijoinInv
  OBVIOUS
<1>1. MultijoinTypes /\ MainInv /\ MutexInv /\ StateInv
  BY MaxThreadsAssumption
     DEF Multijoin!Init, Multijoin!Threads, MultijoinTypes, MainInv, MutexInv,
         StateInv, Before, Past
<1>2. Terms = {}
  BY DEF Multijoin!Init, Terms
<1>3. CountInv
  BY <1>2, FS_EmptySet DEF CountInv, Multijoin!Init
<1> QED BY <1>1, <1>3 DEF MultijoinInv

\* The steps that change neither a state nor a count.
LEMMA CountKept ==
    ASSUME CountInv, UNCHANGED <<argc1, state, numUnjoined>>,
           mjMain' \in Before /\ (numLive = totThreads)' =>
               mjMain \in Before /\ numLive = totThreads
    PROVE  CountInv'
<1>1. Terms' = Terms
  BY DEF Terms, Multijoin!Threads
<1> QED BY <1>1 DEF CountInv

\* Every step of main() and of the threads preserves the invariant.
LEMMA MultijoinStepInv ==
    ASSUME MultijoinInv, Multijoin!Next
    PROVE  MultijoinInv'
<1> USE NobodyAssumption
<1> USE DEF Multijoin!Threads, Multijoin!MAIN, Multijoin!sync, Multijoin!data
<1>1. CASE Multijoin!Create
  <2>1. MultijoinTypes' /\ MainInv' /\ MutexInv' /\ StateInv'
    BY <1>1 DEF Multijoin!Create, MultijoinInv, MultijoinTypes, MainInv, MutexInv,
                StateInv, Before, Past
  <2>2. CountInv'
    BY <1>1, CountKept DEF Multijoin!Create, MultijoinInv, Before
  <2> QED BY <2>1, <2>2 DEF MultijoinInv
<1>2. CASE Multijoin!Created
  <2>1. MultijoinTypes' /\ MainInv' /\ MutexInv' /\ StateInv'
    BY <1>2 DEF Multijoin!Created, MultijoinInv, MultijoinTypes, MainInv, MutexInv,
                StateInv, Before, Past
  <2>2. CountInv'
    BY <1>2, CountKept DEF Multijoin!Created, MultijoinInv, MainInv, Before
  <2> QED BY <2>1, <2>2 DEF MultijoinInv
<1>3. CASE Multijoin!Test
  <2>1. MultijoinTypes' /\ MainInv' /\ MutexInv' /\ StateInv'
    BY <1>3 DEF Multijoin!Test, MultijoinInv, MultijoinTypes, MainInv, MutexInv,
                StateInv, Before, Past
  <2>2. CountInv'
    BY <1>3, CountKept DEF Multijoin!Test, MultijoinInv, Before
  <2> QED BY <2>1, <2>2 DEF MultijoinInv
<1>4. CASE Multijoin!MainLock
  <2>1. MultijoinTypes' /\ MainInv' /\ MutexInv' /\ StateInv'
    BY <1>4 DEF Multijoin!MainLock, Multijoin!MutexLock, MultijoinInv,
                MultijoinTypes, MainInv, MutexInv, StateInv, Before, Past
  <2>2. CountInv'
    BY <1>4, CountKept DEF Multijoin!MainLock, MultijoinInv, Before
  <2> QED BY <2>1, <2>2 DEF MultijoinInv
<1>5. CASE Multijoin!Check
  <2>1. MultijoinTypes' /\ MainInv' /\ MutexInv' /\ StateInv'
    BY <1>5 DEF Multijoin!Check, Multijoin!CondWait, MultijoinInv,
                MultijoinTypes, MainInv, MutexInv, StateInv, Before, Past
  <2>2. CountInv'
    BY <1>5, CountKept DEF Multijoin!Check, MultijoinInv, Before
  <2> QED BY <2>1, <2>2 DEF MultijoinInv
<1>6. CASE Multijoin!Woken
  <2>1. MultijoinTypes' /\ MainInv' /\ MutexInv' /\ StateInv'
    BY <1>6 DEF Multijoin!Woken, Multijoin!CondReturn, Multijoin!MutexLock,
                MultijoinInv, MultijoinTypes, MainInv, MutexInv, StateInv, Before, Past
  <2>2. CountInv'
    BY <1>6, CountKept DEF Multijoin!Woken, MultijoinInv, Before
  <2> QED BY <2>1, <2>2 DEF MultijoinInv
<1>7. CASE Multijoin!Spurious
  <2>1. MultijoinTypes' /\ MainInv' /\ MutexInv' /\ StateInv'
    BY <1>7 DEF Multijoin!Spurious, Multijoin!SpuriousWakeup, MultijoinInv,
                MultijoinTypes, MainInv, MutexInv, StateInv, Before, Past
  <2>2. CountInv'
    BY <1>7, CountKept DEF Multijoin!Spurious, MultijoinInv, Before
  <2> QED BY <2>1, <2>2 DEF MultijoinInv
<1>8. CASE Multijoin!Walk
  <2>1. MultijoinTypes' /\ MainInv' /\ MutexInv' /\ StateInv'
    BY <1>8 DEF Multijoin!Walk, MultijoinInv, MultijoinTypes, MainInv, MutexInv,
                StateInv, Before, Past
  <2>2. CountInv'
    BY <1>8 DEF Multijoin!Walk, CountInv, Before
  <2> QED BY <2>1, <2>2 DEF MultijoinInv
<1>9. CASE Multijoin!MainUnlock
  <2>1. MultijoinTypes' /\ MainInv' /\ MutexInv' /\ StateInv'
    BY <1>9 DEF Multijoin!MainUnlock, Multijoin!MutexUnlock, MultijoinInv,
                MultijoinTypes, MainInv, MutexInv, StateInv, Before, Past
  <2>2. CountInv'
    BY <1>9 DEF Multijoin!MainUnlock, MultijoinInv, MultijoinTypes, MainInv,
                CountInv, Before
  <2> QED BY <2>1, <2>2 DEF MultijoinInv
<1>10. ASSUME NEW t \in Multijoin!Threads, Multijoin!Lock(t) PROVE MultijoinInv'
  <2>1. MultijoinTypes' /\ MainInv' /\ MutexInv' /\ StateInv'
    BY <1>10 DEF Multijoin!Lock, Multijoin!MutexLock, MultijoinInv,
                 MultijoinTypes, MainInv, MutexInv, StateInv, Before, Past
  <2>2. CountInv'
    BY <1>10, CountKept DEF Multijoin!Lock, MultijoinInv
  <2> QED BY <2>1, <2>2 DEF MultijoinInv
<1>11. ASSUME NEW t \in Multijoin!Threads, Multijoin!Critical(t) PROVE MultijoinInv'
  <2>1. MultijoinTypes' /\ MainInv' /\ MutexInv' /\ StateInv'
    BY <1>11 DEF Multijoin!Critical, MultijoinInv, MultijoinTypes, MainInv,
                 MutexInv, StateInv, Before, Past
  <2>2. CountInv'
    <3> SUFFICES ASSUME mjMain \in Before, numLive = totThreads
                 PROVE  numUnjoined' = Cardinality(Terms')
      BY <1>11 DEF Multijoin!Critical, CountInv
    <3>1. t \notin Terms
      BY <1>11 DEF Multijoin!Critical, MultijoinInv, StateInv, Terms, Past
    <3>2. Terms' = Terms \union {t}
      BY <1>11 DEF Multijoin!Critical, MultijoinInv, MultijoinTypes, Terms
    <3>3. Cardinality(Terms \union {t}) = Cardinality(Terms) + 1
      BY <3>1, TermsFinite, FS_AddElement DEF MultijoinInv
    <3> QED BY <1>11, <3>2, <3>3 DEF Multijoin!Critical, MultijoinInv, CountInv
  <2> QED BY <2>1, <2>2 DEF MultijoinInv
<1>12. ASSUME NEW t \in Multijoin!Threads, Multijoin!Unlock(t) PROVE MultijoinInv'
  <2>1. MultijoinTypes' /\ MainInv' /\ MutexInv' /\ StateInv'
    BY <1>12 DEF Multijoin!Unlock, Multijoin!MutexUnlock, MultijoinInv,
                 MultijoinTypes, MainInv, MutexInv, StateInv, Before, Past
  <2>2. CountInv'
    BY <1>12, CountKept DEF Multijoin!Unlock, MultijoinInv
  <2> QED BY <2>1, <2>2 DEF MultijoinInv
<1>13. ASSUME NEW t \in Multijoin!Threads, Multijoin!Signal(t) PROVE MultijoinInv'
  <2>1. MultijoinTypes' /\ MainInv' /\ MutexInv' /\ StateInv'
    BY <1>13 DEF Multijoin!Signal, Multijoin!CondSignal, MultijoinInv,
                 MultijoinTypes, MainInv, MutexInv, StateInv, Before, Past
  <2>2. CountInv'
    BY <1>13, CountKept DEF Multijoin!Signal, MultijoinInv
  <2> QED BY <2>1, <2>2 DEF MultijoinInv
<1>14. CASE Multijoin!Terminated
  <2>1. MultijoinTypes' /\ MainInv' /\ MutexInv' /\ StateInv'
    BY <1>14 DEF Multijoin!Terminated, Multijoin!vars, MultijoinInv,
                 MultijoinTypes, MainInv, MutexInv, StateInv, Before, Past
  <2>2. CountInv'
    BY <1>14, CountKept DEF Multijoin!Terminated, Multijoin!vars, MultijoinInv
  <2> QED BY <2>1, <2>2 DEF MultijoinInv
<1> QED BY <1>1, <1>2, <1>3, <1>4, <1>5, <1>6, <1>7, <1>8, <1>9, <1>10, <1>11,
           <1>12, <1>13, <1>14
        DEF Multijoin!Next, Multijoin!Main, Multijoin!ThreadFunc

\* The invariant is about the variables of the program alone.
LEMMA MultijoinKept ==
    MultijoinInv /\ UNCHANGED multijoinVars => MultijoinInv'
  BY DEF MultijoinInv, MultijoinTypes, MainInv, MutexInv, StateInv, CountInv,
         Before, Past, Terms, Multijoin!Threads, multijoinVars

\* ThreadMultijoin's instance has a copy of Cardinality.
LEMMA SameCardinality ==
    \A S : Multijoin!Cardinality(S) = Cardinality(S)
  BY Zenon DEF Multijoin!Cardinality, Cardinality

\* main() joins a thread with the mutex held only if the thread is past its
\* unlock.
LEMMA MultijoinGoal ==
    MultijoinInv => UnjoinedCounts
<1> SUFFICES ASSUME MultijoinInv PROVE Multijoin!UnjoinedCounts
  BY DEF UnjoinedCounts
<1>1. mjMain \in Before /\ numLive = totThreads =>
          numUnjoined = Cardinality({t \in Multijoin!Threads : state[t] = "TERMINATED"})
  BY DEF MultijoinInv, CountInv, Terms
<1>2. mjMain = "walk" /\ mjIdx < totThreads /\ state[mjIdx] = "TERMINATED" =>
          run[mjIdx] \in {"signal", "done"}
  BY DEF MultijoinInv, MultijoinTypes, MainInv, MutexInv, StateInv, Past, Multijoin!Threads
<1> QED BY <1>1, <1>2, SameCardinality DEF Multijoin!UnjoinedCounts, Before

\* While main() walks it has joined a thread or has a terminated one ahead, so
\* it does not come to its end without having joined one.
WalkInv ==
    /\ mjMain = "walk" =>
          \/ joined # {}
          \/ \E t \in Multijoin!Threads : t >= mjIdx /\ state[t] = "TERMINATED"
    /\ mjMain \in {"test", "exit_ok"} /\ numLive = 0 /\ argc1 > 0 => joined # {}
    /\ mjMain = "exit_ok" => numLive = 0

\* Every step preserves it.
LEMMA WalkStepInv ==
    ASSUME MultijoinInv, WalkInv, Multijoin!Next
    PROVE  WalkInv'
<1> USE DEF Multijoin!Threads, Multijoin!data
<1>1. CASE Multijoin!Check
  <2>1. ASSUME numUnjoined # 0 PROVE \E t \in Multijoin!Threads : state[t] = "TERMINATED"
    <3>1. numUnjoined = Cardinality(Terms)
      BY <1>1 DEF Multijoin!Check, MultijoinInv, CountInv, MainInv, Before
    <3>2. Terms # {}
      BY <2>1, <3>1, FS_EmptySet
    <3> QED BY <3>2 DEF Terms
  <2> QED BY <1>1, <2>1 DEF Multijoin!Check, WalkInv, MultijoinInv, MultijoinTypes
<1>2. CASE Multijoin!Walk
  <2>1. /\ mjMain' = "walk" /\ mjIdx' = mjIdx + 1 /\ argc1' = argc1
        /\ joined \subseteq joined'
        /\ state[mjIdx] = "TERMINATED" => mjIdx \in joined'
        /\ \A t \in Multijoin!Threads : t # mjIdx => state'[t] = state[t]
    BY <1>2 DEF Multijoin!Walk, MultijoinInv, MultijoinTypes
  <2>2. ASSUME NEW t \in Multijoin!Threads, t >= mjIdx, t # mjIdx PROVE t >= mjIdx + 1
    BY <2>2 DEF MultijoinInv, MultijoinTypes
  <2> QED BY <1>2, <2>1, <2>2 DEF Multijoin!Walk, WalkInv
<1>3. CASE Multijoin!MainUnlock
  BY <1>3 DEF Multijoin!MainUnlock, WalkInv, MultijoinInv, MultijoinTypes, MainInv
<1>4. CASE Multijoin!Test
  BY <1>4 DEF Multijoin!Test, WalkInv, MultijoinInv, MultijoinTypes, MainInv
<1>5. CASE Multijoin!Create \/ Multijoin!Created \/ Multijoin!MainLock \/ Multijoin!Woken
             \/ Multijoin!Spurious
  BY <1>5 DEF Multijoin!Create, Multijoin!Created, Multijoin!MainLock, Multijoin!Woken,
              Multijoin!Spurious, WalkInv, MultijoinInv, MultijoinTypes
<1>6. ASSUME NEW t \in Multijoin!Threads, Multijoin!Critical(t) PROVE WalkInv'
  BY <1>6 DEF Multijoin!Critical, WalkInv, MultijoinInv, MultijoinTypes
<1>7. ASSUME NEW t \in Multijoin!Threads,
             Multijoin!Lock(t) \/ Multijoin!Unlock(t) \/ Multijoin!Signal(t)
      PROVE  WalkInv'
  BY <1>7 DEF Multijoin!Lock, Multijoin!Unlock, Multijoin!Signal, WalkInv
<1>8. CASE Multijoin!Terminated
  BY <1>8 DEF Multijoin!Terminated, Multijoin!vars, WalkInv
<1> QED BY <1>1, <1>2, <1>3, <1>4, <1>5, <1>6, <1>7, <1>8
        DEF Multijoin!Next, Multijoin!Main, Multijoin!ThreadFunc

-----------------------------------------------------------------------------
(* t_thread_cleanup.c, t_pthread_cancel.c and t_pthread_cancel2.c.          *)

\* The positions of the thread at which it owns the mutex.
Owning == {"push", "check", "pop", "free", "freed", "unlock"}

\* The mutex, the buffer and the count of free() as the thread's position
\* determines them.
CleanupInv ==
    /\ tcMain = "create" => tcThr = "absent"
    /\ tcMtx = (IF tcThr \in Owning THEN "thread" ELSE NoThread)
    /\ frees = (IF buf = "freed" THEN 1 ELSE 0)
    /\ tcThr \in {"absent", "loop", "malloc"} => buf = "none"
    /\ tcThr \in {"printf", "lock", "push", "check", "wait", "pop", "free"} =>
          buf \in {"allocated", "null"}
    /\ tcThr \in {"freed", "unlock"} => buf \in {"freed", "null"}
    /\ tcThr = "done" => buf \in {"none", "freed", "null", "leaked"}
    /\ buf = "leaked" => tcThr = "done" /\ request

\* The cancellation programs start without thread, buffer and request.
LEMMA CleanupStart ==
    Cleanup!Init => CleanupInv
  BY DEF Cleanup!Init, Cleanup!SyncInit, CleanupInv, Owning

\* Every step of main() and of the thread preserves it.
LEMMA CleanupStepInv ==
    ASSUME CleanupInv, Cleanup!Next
    PROVE  CleanupInv'
<1> USE NobodyAssumption DEF CleanupInv, Owning, Cleanup!sync, Cleanup!T, Cleanup!Loops
<1>1. CASE Cleanup!Create
  BY <1>1 DEF Cleanup!Create
<1>2. CASE Cleanup!CreateLooper
  BY <1>2 DEF Cleanup!CreateLooper
<1>3. CASE Cleanup!CreateUnchecked
  BY <1>3 DEF Cleanup!CreateUnchecked
<1>4. CASE Cleanup!Sleep
  BY <1>4 DEF Cleanup!Sleep
<1>5. CASE Cleanup!Announce
  BY <1>5 DEF Cleanup!Announce
<1>6. CASE Cleanup!Cancel
  BY <1>6 DEF Cleanup!Cancel
<1>7. CASE Cleanup!SignalCond
  BY <1>7 DEF Cleanup!SignalCond, Cleanup!CondSignal
<1>8. CASE Cleanup!SetGlob
  BY <1>8 DEF Cleanup!SetGlob
<1>9. CASE Cleanup!Join
  BY <1>9 DEF Cleanup!Join
<1>10. CASE Cleanup!Loop
  BY <1>10 DEF Cleanup!Loop, Cleanup!Running
<1>11. CASE Cleanup!Malloc
  BY <1>11 DEF Cleanup!Malloc, Cleanup!Running
<1>12. CASE Cleanup!Printf
  BY <1>12 DEF Cleanup!Printf, Cleanup!Running
<1>13. CASE Cleanup!Lock
  BY <1>13 DEF Cleanup!Lock, Cleanup!MutexLock, Cleanup!Running
<1>14. CASE Cleanup!Push
  BY <1>14 DEF Cleanup!Push, Cleanup!Running
<1>15. CASE Cleanup!Check
  BY <1>15 DEF Cleanup!Check, Cleanup!CondWait, Cleanup!Running
<1>16. CASE Cleanup!Woken
  BY <1>16 DEF Cleanup!Woken, Cleanup!CondReturn, Cleanup!MutexLock, Cleanup!Running
<1>17. CASE Cleanup!Pop
  BY <1>17 DEF Cleanup!Pop, Cleanup!Running
<1>18. CASE Cleanup!HandlerFree
  BY <1>18 DEF Cleanup!HandlerFree, Cleanup!Running
<1>19. CASE Cleanup!HandlerPrintf
  BY <1>19 DEF Cleanup!HandlerPrintf, Cleanup!Running
<1>20. CASE Cleanup!HandlerUnlock
  BY <1>20 DEF Cleanup!HandlerUnlock, Cleanup!MutexUnlock, Cleanup!Running
<1>21. CASE Cleanup!Spurious
  BY <1>21 DEF Cleanup!Spurious, Cleanup!SpuriousWakeup
<1>22. CASE UNCHANGED Cleanup!vars
  BY <1>22 DEF Cleanup!vars
<1> QED BY <1>1, <1>2, <1>3, <1>4, <1>5, <1>6, <1>7, <1>8, <1>9, <1>10, <1>11,
           <1>12, <1>13, <1>14, <1>15, <1>16, <1>17, <1>18, <1>19, <1>20, <1>21, <1>22
        DEF Cleanup!Next, Cleanup!Main, Cleanup!Thread, Cleanup!Terminated, Cleanup!Stuck

\* The invariant is about the variables of these programs alone.
LEMMA CleanupKept ==
    CleanupInv /\ UNCHANGED cleanupVars => CleanupInv'
  BY DEF CleanupInv, Owning, cleanupVars

\* The handler runs with the mutex and the buffer, and leaves neither.
LEMMA CleanupGoal ==
    CleanupInv => CleanedUp
  BY NobodyAssumption DEF CleanupInv, Owning, CleanedUp, Cleanup!CleanedUp, Cleanup!T

\* What the thread's result depends on: only cancelling makes a request, only
\* signalling sets glob, and a request leaves no thread asleep.
OutcomeInv ==
    /\ request => mode # "signal" /\ "thread" \notin tcWaiters
    /\ tcGlob # 0 => mode = "signal"
    /\ tcMain = "cancel" => mode # "signal"
    /\ tcMain \in {"signal", "set_glob"} => mode = "signal"
    /\ tcThr = "pop" => tcGlob # 0
    /\ tcThr \in {"free", "freed", "unlock", "done"} =>
          \/ result = "canceled" /\ request
          \/ result = "normal" /\ tcGlob # 0
    /\ tcMain = "exit" => tcThr = "done"

\* Every step preserves it.
LEMMA OutcomeStepInv ==
    ASSUME OutcomeInv, CleanupInv, Cleanup!Next
    PROVE  OutcomeInv'
<1> USE DEF OutcomeInv, Cleanup!T, Cleanup!sync, Cleanup!Loops
<1>1. CASE Cleanup!Create \/ Cleanup!CreateLooper \/ Cleanup!CreateUnchecked
             \/ Cleanup!Sleep \/ Cleanup!Announce \/ Cleanup!SetGlob \/ Cleanup!Join
  BY <1>1 DEF Cleanup!Create, Cleanup!CreateLooper, Cleanup!CreateUnchecked,
              Cleanup!Sleep, Cleanup!Announce, Cleanup!SetGlob, Cleanup!Join, CleanupInv
<1>2. CASE Cleanup!Cancel
  BY <1>2 DEF Cleanup!Cancel
<1>3. CASE Cleanup!SignalCond
  BY <1>3 DEF Cleanup!SignalCond, Cleanup!CondSignal
<1>4. CASE Cleanup!Loop \/ Cleanup!Malloc \/ Cleanup!Printf \/ Cleanup!Push \/ Cleanup!Pop
  BY <1>4 DEF Cleanup!Loop, Cleanup!Malloc, Cleanup!Printf, Cleanup!Push, Cleanup!Pop,
              Cleanup!Running
<1>5. CASE Cleanup!Lock
  BY <1>5 DEF Cleanup!Lock, Cleanup!MutexLock, Cleanup!Running
<1>6. CASE Cleanup!Check
  BY <1>6 DEF Cleanup!Check, Cleanup!CondWait, Cleanup!Running
<1>7. CASE Cleanup!Woken
  BY <1>7 DEF Cleanup!Woken, Cleanup!CondReturn, Cleanup!MutexLock, Cleanup!Running
<1>8. CASE Cleanup!Spurious
  BY <1>8 DEF Cleanup!Spurious, Cleanup!SpuriousWakeup, Cleanup!Running
<1>9. CASE Cleanup!HandlerFree \/ Cleanup!HandlerPrintf
  BY <1>9 DEF Cleanup!HandlerFree, Cleanup!HandlerPrintf, Cleanup!Running
<1>10. CASE Cleanup!HandlerUnlock
  BY <1>10 DEF Cleanup!HandlerUnlock, Cleanup!MutexUnlock, Cleanup!Running
<1>11. CASE UNCHANGED Cleanup!vars
  BY <1>11 DEF Cleanup!vars
<1> QED BY <1>1, <1>2, <1>3, <1>4, <1>5, <1>6, <1>7, <1>8, <1>9, <1>10, <1>11
        DEF Cleanup!Next, Cleanup!Main, Cleanup!Thread, Cleanup!Terminated, Cleanup!Stuck

-----------------------------------------------------------------------------
(* The life-cycle examples.                                                 *)

LifecycleTypes ==
    /\ which \in Lifecycle!Programs
    /\ lcMain \in {"create", "join", "gone", "detach", "return", "exit",
                   "exit_fail", "crash"}
    /\ lcIdx \in Nat
    /\ lcThr \in [0..4 -> {"absent", "run", "done"}]

\* How far main() is says which threads exist and which have ended.
LifeInv ==
    /\ lcMain = "create" =>
          /\ lcIdx <= Lifecycle!Count
          /\ \A t \in 0..4 : t >= lcIdx => lcThr[t] = "absent"
          /\ which = "mutexattr" => \A t \in 0..4 : t < lcIdx => lcThr[t] # "absent"
    /\ \A t \in 0..4 : t >= Lifecycle!Count => lcThr[t] = "absent"
    /\ lcMain \in {"join", "return", "exit"} /\ which = "mutexattr" => lcThr[0] # "absent"
    /\ lcMain = "join" => /\ which \in Lifecycle!Joining
                          /\ \A t \in 0..4 : t < lcIdx => lcThr[t] # "run"
    /\ lcMain \in {"gone", "return", "exit"} /\ which \in Lifecycle!Joining =>
          \A t \in 0..4 : lcThr[t] # "run"
    /\ lcMain \in {"detach", "return", "exit"} => which # "create_2"
    /\ lcMain = "detach" => which = "detach"

\* Only func1() ever owns the error-checking mutex, and it keeps it.
OwnerOnce ==
    which = "mutexattr" => owner \in {-1, 0} /\ (lcThr[0] = "done" => owner = 0)

LifecycleInv == LifecycleTypes /\ LifeInv /\ OwnerOnce

\* The life-cycle examples start without threads.
LEMMA LifecycleStart ==
    Lifecycle!Init => LifecycleInv
  BY DEF Lifecycle!Init, Lifecycle!Threads, Lifecycle!Programs, Lifecycle!Count,
         Lifecycle!Joining, LifecycleInv, LifecycleTypes, LifeInv, OwnerOnce

\* Every step of main() and of its threads preserves it.
LEMMA LifecycleStepInv ==
    ASSUME LifecycleInv, Lifecycle!Next
    PROVE  LifecycleInv'
<1> USE DEF LifecycleInv, LifecycleTypes, LifeInv, OwnerOnce, Lifecycle!Threads,
            Lifecycle!Programs, Lifecycle!Count, Lifecycle!Joining, Lifecycle!Checked
<1>1. CASE Lifecycle!Create
  BY <1>1 DEF Lifecycle!Create
<1>2. CASE Lifecycle!Created
  BY <1>2 DEF Lifecycle!Created
<1>3. CASE Lifecycle!Join
  BY <1>3 DEF Lifecycle!Join
<1>4. CASE Lifecycle!Joined
  BY <1>4 DEF Lifecycle!Joined
<1>5. CASE Lifecycle!Detach
  BY <1>5 DEF Lifecycle!Detach
<1>6. CASE Lifecycle!Return
  BY <1>6 DEF Lifecycle!Return
<1>7. ASSUME NEW t \in 0..4, Lifecycle!Func(t) PROVE LifecycleInv'
  BY <1>7 DEF Lifecycle!Func, Lifecycle!UnlockChecked
<1>8. CASE UNCHANGED Lifecycle!vars
  BY <1>8 DEF Lifecycle!vars
<1> QED BY <1>1, <1>2, <1>3, <1>4, <1>5, <1>6, <1>7, <1>8
        DEF Lifecycle!Next, Lifecycle!Main, Lifecycle!Terminated

\* The invariant is about the variables of these programs alone.
LEMMA LifecycleKept ==
    LifecycleInv /\ UNCHANGED lifecycleVars => LifecycleInv'
  BY DEF LifecycleInv, LifecycleTypes, LifeInv, OwnerOnce, lifecycleVars,
         Lifecycle!Programs, Lifecycle!Count, Lifecycle!Joining

\* A program that joins or leaves by pthread_exit() ends after its threads.
LEMMA LifecycleGoal ==
    LifecycleInv => EndsAfterThreads
  BY DEF LifecycleInv, LifecycleTypes, LifeInv, OwnerOnce, EndsAfterThreads,
         Lifecycle!EndsAfterThreads, Lifecycle!Over, Lifecycle!Threads, Lifecycle!Joining

-----------------------------------------------------------------------------
(* thread_inc.c.                                                            *)

\* Every variable has its type.
IncTypes ==
    /\ incMtx \in {NoThread} \union Inc!Incs
    /\ build \in {"plain", "hoisted", "locked"}
    /\ loops \in Int
    /\ incMain \in {"args", "create", "join", "exit_ok", "exit_fail"}
    /\ thr \in [Inc!Incs -> {"absent", "start", "test", "store", "done"}]
    /\ done \in [Inc!Incs -> Int]
    /\ reg \in [Inc!Incs -> Int]
    /\ glob \in Int

\* How far each thread is: only positive counts are ever run, a thread stores
\* while it has iterations left, and main() prints after both.
Progress ==
    /\ incMain \in {"create", "join", "exit_ok"} => loops >= 1
    /\ incMain = "exit_ok" => \A t \in Inc!Incs : thr[t] = "done"
    /\ \A t \in Inc!Incs :
          /\ thr[t] # "absent" => loops >= 1
          /\ thr[t] \in {"absent", "start"} => done[t] = 0
          /\ done[t] >= 0 /\ (loops >= 1 => done[t] <= loops)
          /\ thr[t] = "store" => done[t] < loops
          /\ thr[t] = "done" => done[t] >= loops
          /\ build = "hoisted" => done[t] = 0 \/ done[t] = loops

\* No store invents an increment.
Upper ==
    /\ glob <= done[1] + done[2]
    /\ \A t \in Inc!Incs : thr[t] = "store" => reg[t] <= done[1] + done[2]

\* A thread that has stored once loads at least Stride from then on, so the
\* last store of all leaves two.
Lower ==
    /\ glob >= 0
    /\ \A t \in Inc!Incs :
          /\ thr[t] = "store" => reg[t] >= 0
          /\ done[t] >= 1 => glob >= Inc!Stride
          /\ thr[t] = "store" /\ done[t] >= 1 => reg[t] >= Inc!Stride
    /\ build = "plain" /\ loops >= 2 /\ done[1] = loops /\ done[2] = loops => glob >= 2

\* With the lock one thread at a time is in its loop and loses nothing.
Exact ==
    build = "locked" =>
        /\ glob = done[1] + done[2]
        /\ \A t \in Inc!Incs :
              /\ thr[t] \in {"test", "store"} => incMtx = t
              /\ thr[t] = "store" => reg[t] = glob

IncInv == IncTypes /\ Progress /\ Upper /\ Lower /\ Exact

\* The inductive invariant holds when thread_inc.c starts.
LEMMA IncStart ==
    Inc!Init => IncInv
  BY LoopArgsAssumption
     DEF Inc!Init, Inc!SyncInit, IncInv, IncTypes, Progress, Upper, Lower, Exact,
         Inc!Incs, Inc!Stride

\* Every step of main() and of the two threads preserves it.
LEMMA IncStepInv ==
    ASSUME IncInv, Inc!Next
    PROVE  IncInv'
<1> USE NobodyAssumption DEF Inc!Incs
<1>1. CASE Inc!Args
  BY <1>1 DEF Inc!Args, Inc!sync, IncInv, IncTypes, Progress, Upper, Lower, Exact, Inc!Stride
<1>2. ASSUME NEW t \in Inc!Incs, Inc!Create(t) PROVE IncInv'
  BY <1>2 DEF Inc!Create, Inc!sync, IncInv, IncTypes, Progress, Upper, Lower, Exact, Inc!Stride
<1>3. CASE Inc!Join
  BY <1>3 DEF Inc!Join, Inc!sync, IncInv, IncTypes, Progress, Upper, Lower, Exact, Inc!Stride
<1>4. ASSUME NEW t \in Inc!Incs, Inc!Start(t) PROVE IncInv'
  <2>1. IncTypes' /\ Progress' /\ Upper' /\ Lower'
    BY <1>4 DEF Inc!Start, Inc!MutexLock, Inc!sync, IncInv, IncTypes, Progress, Upper, Lower, Inc!Stride
  <2>2. Exact'
    BY <1>4 DEF Inc!Start, Inc!MutexLock, Inc!sync, IncInv, IncTypes, Progress, Exact
  <2> QED BY <2>1, <2>2 DEF IncInv
<1>5. ASSUME NEW t \in Inc!Incs, Inc!Load(t) PROVE IncInv'
  BY <1>5 DEF Inc!Load, Inc!sync, IncInv, IncTypes, Progress, Upper, Lower, Exact, Inc!Stride
<1>6. ASSUME NEW t \in Inc!Incs, Inc!Store(t) PROVE IncInv'
  <2>1. /\ loops >= 1 /\ Inc!Stride >= 1 /\ Inc!Stride \in Int /\ Inc!Stride' = Inc!Stride
        /\ done[t] + Inc!Stride <= loops
    BY <1>6 DEF Inc!Store, IncInv, IncTypes, Progress, Inc!Stride
  <2>2. IncTypes' /\ Progress'
    BY <1>6, <2>1 DEF Inc!Store, Inc!sync, IncInv, IncTypes, Progress, Inc!Stride
  <2>3. Upper'
    BY <1>6, <2>1 DEF Inc!Store, IncInv, IncTypes, Upper
  <2>4. Lower'
    <3>1. glob' >= Inc!Stride /\ done'[t] >= 1
      BY <1>6, <2>1 DEF Inc!Store, IncInv, IncTypes, Progress, Lower
    <3>2. build = "plain" /\ loops >= 2 /\ done'[1] = loops /\ done'[2] = loops => glob' >= 2
      BY <1>6, <2>1 DEF Inc!Store, IncInv, IncTypes, Lower, Inc!Stride
    <3> QED BY <1>6, <2>1, <3>1, <3>2 DEF Inc!Store, IncInv, IncTypes, Lower
  <2>5. Exact'
    BY <1>6, <2>1 DEF Inc!Store, Inc!sync, IncInv, IncTypes, Exact
  <2> QED BY <2>2, <2>3, <2>4, <2>5 DEF IncInv
<1>7. ASSUME NEW t \in Inc!Incs, Inc!Finish(t) PROVE IncInv'
  <2>1. IncTypes' /\ Progress' /\ Upper' /\ Lower'
    BY <1>7 DEF Inc!Finish, Inc!MutexUnlock, Inc!sync, IncInv, IncTypes, Progress, Upper, Lower, Inc!Stride
  <2>2. Exact'
    BY <1>7 DEF Inc!Finish, Inc!MutexUnlock, Inc!sync, IncInv, IncTypes, Exact
  <2> QED BY <2>1, <2>2 DEF IncInv
<1>8. CASE UNCHANGED Inc!vars
  BY <1>8 DEF Inc!vars, Inc!sync, IncInv, IncTypes, Progress, Upper, Lower, Exact, Inc!Stride
<1> QED BY <1>1, <1>2, <1>3, <1>4, <1>5, <1>6, <1>7, <1>8
        DEF Inc!Next, Inc!Main, Inc!ThreadFunc, Inc!Terminated

\* The invariant is about the variables of the program alone.
LEMMA IncKept ==
    IncInv /\ UNCHANGED incVars => IncInv'
  BY DEF IncInv, IncTypes, Progress, Upper, Lower, Exact, Inc!Incs, Inc!Stride, incVars

\* When both threads are done, glob is in its range.
LEMMA IncGoal ==
    IncInv => GlobRange
  BY DEF IncInv, IncTypes, Progress, Upper, Lower, Exact, GlobRange, Inc!GlobRange,
         Inc!LeastGlob, Inc!Incs, Inc!Stride

-----------------------------------------------------------------------------
(* The programs under the scheduler of ThreadPrograms.                 *)

\* A run of the scheduler is a run of thread_joinTerm.c, which may stutter.
LEMMA ProgIsJoinTerm == ProgSpec => Spec
<1>1. ProgInit => Init
  BY DEF ProgInit
<1>2. [ProgNext]_progVars => [Next]_vars
  BY DEF ProgNext, progVars, JoinTermStep, MultijoinStep, CleanupStep, IncStep,
         LifecycleStep
<1> QED BY <1>1, <1>2, PTL DEF ProgSpec, Spec

ProgInv == MultijoinInv /\ CleanupInv /\ IncInv /\ LifecycleInv

\* The invariants of the four programs hold together: the program that runs
\* preserves its own, and the others do not move.
THEOREM ProgInvAlways == ProgSpec => []ProgInv
<1>1. ProgInit => ProgInv
  BY MultijoinStart, CleanupStart, IncStart, LifecycleStart DEF ProgInit, ProgInv
<1>2. ProgInv /\ [ProgNext]_progVars => ProgInv'
  <2> SUFFICES ASSUME ProgInv, [ProgNext]_progVars PROVE ProgInv'
    OBVIOUS
  <2>1. MultijoinInv'
    BY MultijoinStepInv, MultijoinKept
       DEF ProgInv, ProgNext, progVars, JoinTermStep, MultijoinStep, CleanupStep,
           IncStep, LifecycleStep
  <2>2. CleanupInv'
    BY CleanupStepInv, CleanupKept
       DEF ProgInv, ProgNext, progVars, JoinTermStep, MultijoinStep, CleanupStep,
           IncStep, LifecycleStep
  <2>3. IncInv'
    BY IncStepInv, IncKept
       DEF ProgInv, ProgNext, progVars, JoinTermStep, MultijoinStep, CleanupStep,
           IncStep, LifecycleStep
  <2>4. LifecycleInv'
    BY LifecycleStepInv, LifecycleKept
       DEF ProgInv, ProgNext, progVars, JoinTermStep, MultijoinStep, CleanupStep,
           IncStep, LifecycleStep
  <2> QED BY <2>1, <2>2, <2>3, <2>4 DEF ProgInv
<1> QED BY <1>1, <1>2, PTL DEF ProgSpec

\* thread_multijoin.c, for every number of arguments: until main() walks,
\* numUnjoined counts the terminated threads, and main() joins under the
\* mutex only threads that no longer need it.
THEOREM JoinsOnlyEnded == ProgSpec => []UnjoinedCounts
<1>1. ProgInv => UnjoinedCounts
  BY MultijoinGoal DEF ProgInv
<1> QED BY <1>1, ProgInvAlways, PTL

\* t_thread_cleanup.c: wherever the cancellation or the signal finds the
\* thread, cleanupHandler() runs once, with the mutex and the buffer.
THEOREM HandlerSafe == ProgSpec => []CleanedUp
<1>1. ProgInv => CleanedUp
  BY CleanupGoal DEF ProgInv
<1> QED BY <1>1, ProgInvAlways, PTL

\* thread_inc.c: for every number of loops and in every build, the value
\* printed is at least LeastGlob and at most 2 * loops.
THEOREM GlobInRange == ProgSpec => []GlobRange
<1>1. ProgInv => GlobRange
  BY IncGoal DEF ProgInv
<1> QED BY <1>1, ProgInvAlways, PTL

\* The life-cycle examples: who joins or leaves by pthread_exit() ends after
\* its threads, and t_pthread_mutexattr.c ends with its mutex locked.
THEOREM ThreadsEndFirst == ProgSpec => []EndsAfterThreads
<1>1. ProgInv => EndsAfterThreads
  BY LifecycleGoal DEF ProgInv
<1> QED BY <1>1, ProgInvAlways, PTL

\* thread_multijoin.c: what is left of the promise that the threads are joined.
\* The walk marks threads it has not joined, but main() starts it only for a
\* thread that has terminated, so it never returns with none joined.
THEOREM EndsWithOneJoined ==
    ProgSpec => [](mjMain = "exit_ok" /\ argc1 > 0 => joined # {})
<1>1. ProgInit => WalkInv
  BY DEF ProgInit, Multijoin!Init, WalkInv
<1>2. WalkInv /\ UNCHANGED multijoinVars => WalkInv'
  BY DEF WalkInv, multijoinVars, Multijoin!Threads
<1>3. ProgInv /\ WalkInv /\ [ProgNext]_progVars => WalkInv'
  BY <1>2, WalkStepInv
     DEF ProgInv, ProgNext, progVars, JoinTermStep, MultijoinStep, CleanupStep, IncStep,
         LifecycleStep
<1>4. WalkInv => (mjMain = "exit_ok" /\ argc1 > 0 => joined # {})
  BY DEF WalkInv
<1> QED BY <1>1, <1>3, <1>4, ProgInvAlways, PTL DEF ProgSpec

\* The cancellation programs: main() reads PTHREAD_CANCELED from the join
\* exactly if it cancelled the thread, and from the request on the thread does
\* not sleep on the condition variable: the safety half of CancelOutcome.
THEOREM JoinReportsCancel ==
    ProgSpec => [](/\ tcMain = "exit" =>
                        result = (IF mode = "signal" THEN "normal" ELSE "canceled")
                   /\ request => Cleanup!T \notin tcWaiters)
<1>1. ProgInit => OutcomeInv
  BY DEF ProgInit, Cleanup!Init, OutcomeInv
<1>2. OutcomeInv /\ UNCHANGED cleanupVars => OutcomeInv'
  BY DEF OutcomeInv, cleanupVars
<1>3. ProgInv /\ OutcomeInv /\ [ProgNext]_progVars => OutcomeInv'
  BY <1>2, OutcomeStepInv
     DEF ProgInv, ProgNext, progVars, JoinTermStep, MultijoinStep, CleanupStep, IncStep,
         LifecycleStep
<1>4. OutcomeInv =>
        /\ tcMain = "exit" =>
              result = (IF mode = "signal" THEN "normal" ELSE "canceled")
        /\ request => Cleanup!T \notin tcWaiters
  BY DEF OutcomeInv, Cleanup!T
<1> QED BY <1>1, <1>3, <1>4, ProgInvAlways, PTL DEF ProgSpec

\* thread_joinTerm.c keeps its counters, its safe joins and its life cycle
\* when it is the program the scheduler runs.
THEOREM JoinTermSafe ==
    ProgSpec => []CountersAgree /\ []JoinIsSafe /\ ImplementsThreadLife
  BY ProgIsJoinTerm, CountersRight, JoinSafe, LifeRefinement, PTL
=============================================================================
