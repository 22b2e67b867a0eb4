# A TLA+ verification of LinuxUnixSystemProgramming

The repository is a collection of small C programs that exercise Linux system
calls: TCP servers in three architectures (`myEpollReactor.c`,
`webprogramming/multi_thread_server.c`, `webprogramming/multi_processor_server.c`),
producer/consumer and thread-joining programs built on one mutex and one
condition variable, an echo client and server with a library of socket wrappers,
programs that signal, kill and lock each other out, and demonstrations of single
calls. There are no tests; the only statements of intent are comments and log
messages. This directory models all of them but two, model-checks them with TLC
on small instances and proves with TLAPS, for every size, every safety property
that a passing run checks and every refinement: the reactor and the threaded server
implement `RequestReply`, both producer/consumer programs `UnitTransfer`, the
joiner `ThreadLife`.

## 1. Inventory

Modelled programs.

| component | source | state | operations | what is hard | what makes it correct |
|---|---|---|---|---|---|
| condition-variable producer/consumer | `producer_consumer_model.c` | mutex, condition, `available`, `consumed`, loop counter | lock, produce, unlock, signal every tenth; test, lock, wait, drain, unlock | sparse signals sent after the unlock, spurious wakeups, an unlocked read of `consumed` | no unit lost or taken twice; all consumed; bounded loss otherwise |
| polling producer/consumer | `prod_no_condvar.c` | mutex, `avail`, `numConsumed`, `totalRequired`, `done` | n producers; a polling `main()` | any number of producers, lock starvation, arguments that are zero or negative | exit only when all is consumed; polling ends |
| epoll reactor | `myEpollReactor.c` | slot array `Events`, interest list, batch of reports, descriptors, socket buffers | `epoll_wait` loop, `acceptconnection`, `recvData`, `sendData`, `setevent`/`eventadd`/`eventdel` | callbacks change slots and descriptors that later reports of the same batch name; full table; resets | slots and interest list agree; no stale report; no slot lost; each request answered |
| multi-threaded server | `webprogramming/multi_thread_server.c` | slots `socks[]` (`on`, `cfd`) shared without a lock, `main()`'s index, workers | scan, accept, create, turn on, `sigsuspend`; worker read, write, close, turn off, `raise` | `on = 1` after the thread has started, slot reuse, which thread a signal reaches | a worker touches its own connection only |
| multi-process server | `webprogramming/multi_processor_server.c` | process tree, descriptors of each process, pending SIGCHLD | accept, fork, read, write, close, reaping handler | inherited descriptors, merged signals, the precedence of line 126 | one reader per connection; no zombie stays |
| joiner thread | `thread_joinTerm.c` | `threads[].status`, `termNum`, `joinedNum` | workers end and signal; a joiner waits, scans, joins | `pthread_join` with the mutex held; a signal that stands for several ends or finds no waiter | counters agree with statuses; no deadlock; all joined |
| joining `main()` | `thread_multijoin.c` | `thread[].state`, `numLive`, `numUnjoined` | threads end and signal; `main()` waits, walks, joins | the brace of line 110 | a thread marked as joined has been joined (it is not: section 5) |
| cancellation | `t_thread_cleanup.c`, `t_pthread_cancel.c`, `t_pthread_cancel2.c` | mutex, condition, `glob`, `buf`, cancellation request, handler stack | cancel or signal; wait; cleanup handler | where the cancellation lands; signal before predicate | handler once, with the mutex owned; cancelled thread ends, signalled thread ends (it may not: section 5) |
| unlocked counter | `thread_inc.c` | `glob`, what each thread has loaded | load, store, with or without the mutex | increments overwritten by the other thread; a compiler that keeps `glob` in a register | the range of what is printed |
| life-cycle examples, error-checking mutex | `t_pthread_join.c`, `_join2`, `_create`, `_create_2`, `_detach`, `_attr`, `_mutexattr` | threads, `main()`, the mutex's owner | create, join, detach, return or `pthread_exit` | sleeps instead of synchronisation, results nobody looks at | a program that joins ends after its threads |
| socket wrappers | `webprogramming/HSocket.c` | `nleft`, `ptr`, results | `Accept`, `Read`, `Write`, `ReadN`, `WriteN`, `Close` with their retry loops | short reads and writes, EINTR, end of stream and reset in the middle, `=` for `==` in `Close` | the bytes arrive in order and are counted; every call but `Close` ends |
| echo pair | `tcpServer.c`, `tcpClient.c`, `client.c` | what is under way in each direction, what the server holds, what the handler still writes | connect, write a line, read an answer, stop password from a signal handler; accept, read, write back | message boundaries, full buffers, either side dying | nobody waits for what will not come |
| SIGABRT handling | `abort.c` | disposition, handler mask, process mask, pending signals | `abort()` in eight steps | ignored, caught or blocked SIGABRT, a second one from outside | the process dies of the signal |
| signals | `simpleSuspend.c`, `t_sigqueue.c`, `webprogramming/killfrom.c` | masks, pending signals, pids | block, install, `sigsuspend`; send; kill a range | the signal before the wait; a killer in its own range | no wakeup is lost |
| daemon | `Daemon/daemon_1.c` | timer, disposition of SIGALRM, process group | fork, setsid, arm, install, log | the timer is armed first; `setsid()` may fail unnoticed | an alarm kills it in that window only; out of its old group, a kill of that group misses it |
| record locks | `file_lock.c`, `t_fcntl_locking.c`, `i_fcntl_locking.c` | the lock table of one file, the waiting requests | F_SETLK, F_SETLKW, F_GETLK on byte ranges | competition, deadlock detection, holders and waiters killed | who stays with a lock has it; a killed holder frees its waiters |

Interactions. The threaded programs interact through one mutex and one condition
variable (`PthreadSync`). The servers interact with the kernel (accept queue,
descriptors, readiness) and with clients that connect, send, close and reset in
any order. `multi_processor_server.c` uses wrappers of its own for socket, bind,
listen and fork, all of which exit on failure. The signal and lock programs meet
as processes of one machine: `t_sigqueue` and `killfrom` take pids, and the three
lock programs use the same file (`UnixProcess`, `ProcessSystem`). The thread
programs do not call one another.

Not modelled (section 7): `t_pthread_rdlock.c` and `t_pthread_equal.c`.

The hazards, each at its line and with the properties that would catch it, are
listed in `PROJECT.json`.

## 2. Modules

```
PthreadSync        one mutex and one condition variable (external: POSIX threads)
 |- ProducerConsumer ..... implements UnitTransfer
 |    |- ProducerConsumerProofs
 |    `- TransferPrograms  with the next, EchoPair and HSocket, one run at a time
 |         |               (MCTransferPrograms)
 |         `- TransferProofs
 |- ProdNoCondvar ........ implements UnitTransfer
 |- ThreadJoinTerm ....... implements ThreadLife
 |    `- ThreadPrograms    with the next three and ThreadLifecycle, one run at a time
 |         `- ThreadProgramsProofs
 |- ThreadMultijoin
 |- ThreadCleanup
 `- ThreadInc
ThreadLifecycle
EpollReactor ............. implements RequestReply     (MCEpollReactor)
 `- EpollReactorProofs
MultiThreadServer ........ implements RequestReply     (MCMultiThreadServer)
 `- MultiThreadServerProofs
MultiProcessServer
 `- MultiProcessServerProofs
AcceptQueueLemmas          shared by the proofs about the three servers
EchoPair, HSocket          part of TransferPrograms
UnixProcess        signals, masks, timers and record locks (external: the kernel)
 |- SignalPrograms   abort.c, simpleSuspend.c, t_sigqueue.c, daemon_1.c, killfrom.c
 |- LockPrograms     file_lock.c, t_fcntl_locking.c, i_fcntl_locking.c
 `- ProcessSystem    processes of both kinds side by side (MCProcessSystem)
      `- ProcessSystemProofs
UnitTransfer, RequestReply, ThreadLife    abstract specifications
```

* `PthreadSync` is the contract of the pthread calls as the programs use them:
  `MutexLock`/`MutexUnlock`, `CondWait` (release and block in one step),
  `CondReturn`, `CondSignal` (wakes one waiter or is forgotten),
  `SpuriousWakeup`. The library is not in the repository, so these definitions
  are marked external.
* `UnixProcess` is in the same way the contract of the kernel's calls: a standard
  signal is pending or not, a process that ends loses its locks, F_SETLKW refuses
  a request that would close a cycle of waiting processes.
* `UnitTransfer`, `RequestReply` and `ThreadLife` say what a program promises,
  without its threads, locks, slots or descriptors.
* Each program module has one variable per program variable and a program
  counter per thread or process. An action is what happens between two points
  another thread can observe: a lock, one shared access, an unlock, a blocking
  call. Its name is the function's, or says which statement of the function it
  is. Failing library calls (`pthread_create`, `accept`, `fork`, `epoll_ctl`)
  are disjuncts of the action with the code's error path.
* Operators commented as faults of the code ("A producer that ...") are single
  plausible changes of the definition below them; none is part of a
  specification. They exist to show that each property notices a wrong program.

Data left out: message text, addresses and ports, log output, the delay loops
and `sleep()` calls (a sleep is any interleaving). A segment of data is a unit
count; a read may take any part of what has arrived.

### How state corresponds to the code

* `ProducerConsumer`: `main`, `prod`, `cons` are the threads' positions; `j`,
  `available`, `consumed` are the C variables; 20000 and 10 are `TOTAL_COUNT`
  and `SignalEvery`.
* `ProdNoCondvar`: `argv` holds the command-line counts after `atoi()`, chosen in
  `PollInit`; `main()` alternates between polling and consuming under the mutex.
* `EpollReactor`: `Events` is the slot array (`fd`, `events`, `call_back`,
  `status`), `tree` the kernel's interest list (descriptor to slot and mask),
  `batch`/`cur`/`step` the reports of the current `epoll_wait()` and the
  position in the dispatch loop, `file` the client behind each descriptor,
  `queue` the accept queue, `peer`, `rcv`, `snd`, `toSend` the clients' ends.
* `MultiThreadServer`: `socks` is the slot array; `worker[c]` is the thread
  started for client c with the slot whose address it was given. It reads its
  descriptor through that slot each time, as the code does.
* `MultiProcessServer`: `communicatefd` is always 0 (line 126 assigns the
  comparison), so a process is described by what its descriptor 0 is, whether
  its listening descriptor is open and what it holds on other descriptors.
* `ThreadJoinTerm`, `ThreadMultijoin`, `ThreadCleanup`, `ThreadInc`: the C
  variables by name, plus a position per thread. `mode` of `ThreadCleanup` and
  `which` of `ThreadLifecycle` are the program, `build` of `ThreadInc` the three
  ways its source can be compiled. An identifier that a failed
  `pthread_create()` has not set may crash the call that uses it or make it fail.
* `HSocket`: `wleft` and `rleft` are `nleft` of the two loops; a byte is its place
  in the writer's buffer, so `got` shows order, gaps and repetitions. `None` is
  the result of a call that has not returned.
* `EchoPair`: `up` and `down` count the bytes in the two directions, `held` what
  the server has read and not sent back, `left` what is left of a line, `owes`
  what is left of the passwords the signal handlers write, `nest` how many
  handlers are active, one inside the other (SIGTSTP and SIGQUIT can be caught,
  so at most two: `Handlers`). "read_empty" is the
  read of `client.c` after it wrote nothing.
* `UnixProcess`: `cmd` is the command line of each process with what it inherits,
  `disp`, `mask`, `pend` its signals, `locks[p][b]` its lock on byte b, `wants` the
  request it waits with. A byte range of `fcntl()` is the set of bytes it names;
  the empty set is a request that is refused. `saved` is `prevSet` of
  `simpleSuspend.c` and `sa.sa_mask` of `abort.c`; `group` holds the processes
  still in the process group all were started in, which `kill(0, ...)` reaches.
  `leader` in the command line of the daemon says that it leads this group, as the
  process left by a failed `fork()` may: its `setsid()` fails, which line 42 does
  not look at, and it stays in the group.

## 3. Runs

| run | instance | distinct states | shows |
|---|---|---|---|
| `transfers` | 21 units, period 10; up to 3 polling producers of -1..2 units; lines of up to 3 bytes, a password of 3, 4 bytes of buffer; 5 bytes through a buffer of 3 | 68 thousand | both unit programs: conservation, the stranding bound, exit only when all is consumed, termination, `UnitTransfer`; the echo pair never waits for nothing, the outcomes of a wait; the wrappers keep the stream intact, and every call but `Close` ends |
| `pc_stuck` | 20 units, period 10 | violation | `AllConsumed` fails (finding 1) |
| `reactor_slots` | 4 clients, 2 slots, 3 descriptors | 910 thousand | registration agreement, no stale report, only a reset ends the server through `epoll_ctl`, a client is turned away only when both slots are in use, `RequestReply` |
| `reactor_live` | 2 clients, 2 slots, 2 descriptors, 2 segments each | 44 thousand | every request answered, every disconnect noticed |
| `threads_slots` | 3 clients, 2 slots, 2 descriptors | 994 thousand | a worker serves its own client, `RequestReply` |
| `threads_wake` | 1 client, 1 slot | violation | `CanAcceptAgain` fails (finding 2) |
| `procs_children` | 2 clients, 4 processes | 44 thousand | one reader, only the first connection is missed, zombies reaped |
| `procs_first` | 1 client, 3 processes | violation | `ChildHasConnection` fails (finding 3) |
| `thread_programs` | the joiner with 5 threads (the code's number), `main()` with 0 to 4 threads, four cancellation programs, 0 to 4 loops, seven life-cycle programs | 72 thousand | counters agree, joining is safe, all joined, `ThreadLife`; the count until the walk; handler once and under the mutex, the outcome of cancelling; the range of `glob`; who ends after its threads |
| `multijoin_walk` | up to 3 threads | violation | `JoinedMeansJoined` fails (finding 4) |
| `cleanup_signal` | the signalling branch | violation | `SignalledEnds` fails (finding 5) |
| `processes` | 94 command lines of 2 to 4 processes, 2 bytes to lock | 30 thousand | `abort()` ends by the signal, no wakeup of `sigsuspend` is lost, the daemon's alarm window and its leaving of the group, who stays with a lock has it, killed holders free their waiters |

Run one with `tlc -config <cfg> <module>`, for instance
`tlc -config ThreadPrograms.cfg ThreadPrograms`.

### Bounds and why they are enough

* `transfers`, condition variable: 21 is two full signalling periods and one unit, so the last
  iteration signals, the consumer can sleep in every phase of a period, and a
  signal can be lost in each. With 20 units (like the 20000 of the code, a
  multiple of the period) the tail does not signal: `pc_stuck`. The theorems
  cover every other number.
* `transfers`, polling: three producers give contention between producers and with `main()`;
  -1, 0, 1, 2 are the argument classes the code distinguishes (negative lowers
  the total, zero makes nothing, one and several).
* `reactor_slots`: four clients for three descriptors and two connection slots
  (`MAXEVENT` = 2; the listener has the slot after them) reach a full table, a
  forgotten descriptor and an `accept()` that fails for want of descriptors; clients are symmetric (a set of
  model values the specification never orders). `reactor_live` uses no symmetry
  and two segments, so that a connection alternates between reading and replying
  more than once; both connections can be reported in one batch. `SndBuf` = 1
  makes the socket writable or not.
* `threads_slots`: three clients for two slots and two descriptors reach slot
  reuse, the full server, the lost slot and the `accept()` retry loop.
* `procs_children`: with two clients the second is accepted as descriptor 0,
  which the first cannot be; four processes allow two children to die while one
  SIGCHLD is pending, and `fork()` to fail. A pid can be reused.
* `thread_programs`: the joiner has the code's own number of threads;
  `thread_multijoin.c` gets `argc - 1` in 0..4; four loops of `thread_inc.c` are
  enough to lose all increments but two (0 takes the error exit), and the theorem
  covers every number. A behaviour runs one program, the others stay at their
  initial states, so the programs do not multiply.
* `processes`: the command lines are listed in `MCProcessSystem`. `abort()` is
  called with every combination of disposition, handler mask and process mask,
  while SIGABRT comes from outside as well; `simpleSuspend` gets up to three
  signals of up to two kinds, with SIGINT inherited blocked or not; `killfrom`
  starts at its own group, below, at or above the other pids; the daemon leads its
  group or does not. Two bytes tell
  overlapping, nested and disjoint lock ranges apart, and two interactive
  processes with a third are enough for EDEADLK.
* `transfers`, sockets: the buffer of the pair is larger than a line and smaller than a line
  and a password, so that both directions can fill up (the state `BothFull` is
  reached); the wrappers' buffer is smaller than the message, so that every split
  of five bytes into writes and reads occurs.
* Clients connect once each; `MaxSend` bounds what each sends, so every
  server is quiescent in the end, which the stuttering action `Idle` allows.
  `Terminated` does the same for a process that has ended, `Idle` of
  `ProcessSystem` and `Quiet` of `TransferPrograms` for programs that are over or
  wait for input, and `Stuck` in `ThreadCleanup` for the lost wakeup of finding 5,
  so deadlock checking stays on in every run.

### Fairness and why the code justifies it

* Weak fairness of every thread and process: the scheduler runs what can run;
  no program uses priorities.
* Strong fairness of the lock steps of `ProducerConsumer`, `ProdNoCondvar`,
  `ThreadJoinTerm` and `ThreadMultijoin`: another thread may take and release
  the mutex again and again (a polling `main()`, a joiner woken spuriously), so
  the lock is not continuously available; that a competitor gets a default
  mutex eventually is the usual assumption about a preemptive scheduler.
  `TransferPrograms` states it for all steps of a thread together, which is the
  same: a thread has one enabled step at a time.
* Strong fairness of the echo client's read: signals may interrupt it again and
  again, and each time the handler is in the way; the bytes that are there are
  returned when it is not. The handler itself, and all else in the socket
  programs and in `processes`, is only weakly fair: a process that can run is run, and a
  deliverable signal is delivered.
* No fairness for timers, for the user of `i_fcntl_locking.c`, for spurious
  wakeups, for failing calls, for signals sent from outside, for standard input,
  or for clients connecting, sending or closing.
  The one thing expected of clients is that a connected one reads its replies
  (`ClientRead` in `EpollReactor`): the reactor waits for writability.

## 4. Proofs

`ProducerConsumerProofs` proves, for every `TOTAL_COUNT` and `SignalEvery`,
`TypeCorrect`, `UnitsConserved`, `Exclusion`, `StrandedUnits` and `Refinement`
(the program implements `UnitTransfer`). Assumptions: both constants are positive
naturals (`CountAssumption`, `EveryAssumption`), and `NoThread` is no thread
(`ThreadAssumption`).

The inductive invariant is

    IndInv == TypeOK /\ OwnerInv /\ LoopInv /\ NoUnitLost /\ SleeperBacklog

`NoUnitLost` alone is inductive but does not bound `consumed`, and
`SleeperBacklog` needs to know that the consumer looked at `available` while the
producer could not change it: `OwnerInv` ties the mutex to program points.
`LoopInv` records what a thread's position says about its counter (a producer in
its body has j < TOTAL_COUNT, a finished consumer has consumed everything), which
completion in the refinement rests on. The backlog step at a silent iteration is
arithmetic: `RemainderStep` shows that the remainder grows by exactly one. For
the code's 20000 and 10, `StrandedUnits` says that at most 9 units are left.

`ThreadProgramsProofs` is about the thread programs; a program that is not run
keeps its variables, so each has an inductive invariant of its own, and
`ProgInvAlways` puts them together (`ProgIsJoinTerm` does it for
`thread_joinTerm.c`, whose theorems are about its own specification).

* `thread_joinTerm.c`, for every `THREADNUM`: `TypeCorrect`, `CountersRight`,
  `JoinSafe`, `LifeRefinement` (it implements `ThreadLife`), and under the common
  scheduler `JoinTermSafe`. Assumptions: `THREADNUM` is a positive natural
  (`ThreadNumAssumption`) and `NoThread` is neither a worker nor the joiner
  (`NoThreadAssumption`). The invariant is

      IndInv == TypeOK /\ OwnerInv /\ StatusInv /\ PositionInv /\ CountersAgree

  `CountersAgree` is not inductive alone: `Start` writes a status without the
  mutex, and only `StatusInv` (a status is what the position of its thread says)
  shows that it writes the value that is there already; `JoinerJoin` moves a
  thread from TERMINATED to JOIN only because `PositionInv` remembers what the
  scan saw, which no worker can undo. `OwnerInv` puts a thread with status
  TERMINATED past its unlock whenever the joiner owns the mutex, which is why
  joining under the mutex cannot deadlock. The counters are cardinalities, so
  their bounds and the last step (`joinedNum = THREADNUM` means all are joined)
  come from the library's theorems on finite sets (`SubsetSize`).
* `thread_multijoin.c`, for every number of arguments: `JoinsOnlyEnded`
  (`UnjoinedCounts`). The property is about the time before the walk; what makes
  it inductive is that after the walk `numLive` is zero while `totThreads` is not
  (`MainInv`), so that the faulty bookkeeping of the walk is never taken for the
  count, and that a state not yet walked over is still the thread's own
  (`StateInv`). `EndsWithOneJoined` is what remains of the joining in spite of
  finding 4: with threads to wait for, `main()` does not end well before it has
  really joined one
  (`WalkInv`: during the walk one is joined, or one that has ended lies ahead).
* The cancellation programs: `HandlerSafe` (`CleanedUp`). The position of the
  thread determines the mutex, the buffer and the count of `free()`
  (`CleanupInv`). `JoinReportsCancel` is the safety half of `CancelOutcome`: the
  result of the join is the one the program's mode calls for, and a thread with a
  request against it does not sleep on the condition (`OutcomeInv`).
* `thread_inc.c`, for every number of loops: `GlobInRange` (`GlobRange`). With the
  lock, `glob` is the sum of what both threads have stored. Without it the upper
  bound holds because a loaded value is never above that sum, and the lower bound
  needs two facts about a thread that has stored before: what it loads next is at
  least one, hence what it stores last is at least two, and the other thread's
  overwriting store is subject to the same argument. A build that keeps `glob` in
  a register stores once per thread, at least `loops`.
* The life-cycle examples: `ThreadsEndFirst` (`EndsAfterThreads`). `LifeInv` says
  which threads exist and have ended at each point of `main()`.

Assumptions of the last four: `MaxThreadsAssumption`, `LoopArgsAssumption` (the
numbers are numbers) and `NobodyAssumption` (`NoThread` is no thread).

`TransferProofs` is about the programs that pass counted things on.

For the sockets it proves `NeverStuck` from `EchoAssumption` (positive lengths).
The property speaks of a client that reads; the invariant (`UnderWay`)
adds the client in the middle of its write, because a signal can cut that write
short and send it to read, and that a server that reads holds nothing. It proves
`TransferIntact` from `HSocketAssumption` (positive sizes). The invariant says that
the bytes in `got` and `stream` are counted by `wleft` and `rleft` and that each has
its place (`Follows`): a write appends the next numbers (`AppendFollows`), a read
takes a part of consecutive numbers and leaves one (`PartFollows`). `Returned` ties
the results to the counters: a short `ReadN()` comes after a writer that ended with
bytes unwritten, which is why a complete `WriteN()` is never met by a short one.

For `prod_no_condvar.c` it proves, for every number of producers and every count,
`PollConserves` (`PollNoUnitLost`), `PollExclusion`, `NoneTooMany` (the producers make
no more than was asked for), `ExitComplete` (`ExitMeansAllConsumed`) and
`PollRefinement` (`PollImplementsTransfer`), from `ArgsAssumption` (the counts are
integers). A unit is the pair of a producer
and a number, so what all producers have made is the cardinality of a set (`Units`)
and not a sum over a fold, whose laws would be inductions over data. One more round
of one producer adds one pair (`UnitsGrow`), one more producer adds its pairs to
those of the others (`UnitsAppend`), and fewer rounds make a subset
(`UnitsMonotone`). The invariant is

    PollInv == /\ PollTypes /\ PollOwner /\ LoopBounds
               /\ RequiredInv /\ DoneInv /\ PollNoUnitLost

`PollNoUnitLost` needs `PollOwner`: only the owner of the mutex is between its lock and
its unlock. `LoopBounds` keeps each producer within its count, or at zero if that is
negative; `NoneTooMany` follows, without which `Make` of `UnitTransfer` could not be
taken. That `main()` exits with everything consumed needs `RequiredInv` (the total
counts exactly the units of the producers created so far, if none is negative, and
`main()` polls only after creating all) and `DoneInv` (`done` was computed when
`numConsumed` had reached the total, and neither goes back).

`TransfersSafe` carries these theorems, and those of `ProducerConsumerProofs`, over
to the specification the run uses, in which one of the four programs is run.

`EpollReactorProofs` proves, for every number of clients, slots, descriptors and
segments, `TreeAgrees` (`RegistrationsAgree`), `NoStaleReport`
(`ReportsStillValid`), `ResetOnly` (`DiesOnlyOnReset`), `NoSlotLost`
(`TurnedAwayOnlyWhenFull`) and `RequestReplyRefinement`. Assumptions: `SizesAssumption` (naturals, at least one
descriptor and room for one reply), `NoClientAssumption` and `NoRegAssumption`
(the value of an empty entry of the interest list is no entry). The invariant is

    IndInv == /\ DiesOnlyOnReset
              /\ Running => LoopTypes /\ Types /\ Listener /\ Connections
              /\ server = "boot" => Fresh
              /\ server = "up" => Registered /\ Handling

The properties lean on each other. A callback may assume that its report is valid
only because no earlier callback of the batch touched its slot: `Handling` says that
the reports left name other slots than the one in hand, and `Connections` that no
two descriptors stand for one client, so that a callback that closes its own
descriptor, or accepts a connection into a free slot, changes nothing another
report is about. After `recvData` or `acceptconnection` the loop body goes on to
its second test with a slot that may have changed; `Handling` records that such a
report asked for EPOLLIN only. `Registered` says what the two `epoll_ctl()` calls
need: ADD of a descriptor that is not in the tree, DEL of one that is. The only
call that breaks this is the second `eventdel()` of `sendData`'s error branch, which
a reset precedes. The operations on slots and tree are proved once, on
configurations, and then used by the callbacks.

`NoSlotLost` counts. By `Registered` and `Connections` a slot with status 1 is the
slot of exactly one client in service and a client in service has exactly one
slot, so a full table means `MAXEVENT` clients served (`FullHouse`, by a bijection
from the slots to these clients). When `accept()` finds no free descriptor there are more connections
open than slots, so one of them has no slot and was turned away earlier
(`Overflow`). `Forgotten` shows that no other step can turn a client away.

`MultiThreadServerProofs` proves, for every number of clients, slots, descriptors
and segments, `OwnConnection` (`ServesOwnClient`) and `RequestReplyRefinement`, from `SizesAssumption` and `NoClientAssumption`:

    IndInv == Types /\ Connections /\ Filling /\ Held /\ ServesOwnClient

`ServesOwnClient` is not inductive: that `main()` writes `cfd` into a slot no active
thread uses is `Filling` (the slot it has scanned is off and nobody's, and stays so
until `main()` turns it on), and that an off slot has no active thread is `Held`,
with the one exception the code has: the thread started before `on = 1`.

`MultiProcessServerProofs` proves, for every number of clients and processes,
`OneReaderAlways` (`OneReader`) and `FirstOnly` (`OnlyFirstIsMissed`), from
`SizesAssumption` and `DescriptorsAssumption` (standard input, a closed descriptor
and connections differ):

    IndInv == Types /\ Roles /\ Private /\ Missed /\ Unaccepted

`Roles` is what the program points say of descriptors: a child that falls back into
the accept loop has descriptor 0 and the listening descriptor closed, so it can
neither accept nor pass on a connection. `Private` is stronger than `OneReader`, as
it counts children that have not begun to read, and says that the server forks for
a connection no child has; that needs `Unaccepted` (a connection in the queue is on
nobody's descriptor). An exit and a reaping only take processes away, which
preserves all of it (`FadingKeeps`), whoever their parents are.

`NoZombieForgotten` is the safety core of `ZombiesReaped`: as long as a zombie is
there, its parent lives and has a SIGCHLD pending. Signals merge, but the handler
reaps in a loop until nothing is left. The invariant (`Family`) has to say of every
process that its parent, if it has one, is another process that is alive, since the
exit of a parent makes its children orphans in the same step.

`AcceptQueueLemmas` holds what the three proofs share: taking the head and appending
keep a queue without repetitions, and the lowest free number is free. The latter is
an induction; it is done with the library's theorem that a well-founded set has
minimal elements (`WFMin`), which takes no operator as a parameter.

`ProcessSystemProofs` proves, for every set of processes and command lines,
`AbortEndsBySignal` (`AbortBySignal`), `AlarmWindow` (`AlarmKillsOnlyEarly`),
`HoldersSafe` (`HolderHasLock`), `DaemonLeavesGroup` (`GroupKillMissesDaemon`),
`NoWakeupLost` and `KilledFreeLocks`. The first three rest on

    IndInv == Typed /\ AbortInv /\ DaemonInv /\ Compatible /\ HoldInv

Assumptions: `ScenariosAssumption` (pids are positive, the first pid of a
`killfrom` is not negative, and a command line has the fields its program reads,
with existing signals and bytes) and `SendersAssumption` (`t_sigqueue` sends
`abort.c` no other signal than SIGABRT, and the daemon no SIGALRM: other signals end
those programs by their default action, which says nothing about them). `AbortAt`
follows SIGABRT through the steps of `abort()`: from the first `kill()` on it is not
in the mask that `sigprocmask()` will set, the disposition is then the default, and
at the line of `exit(1)` the signal is pending, unblocked and deadly, so the process
is already over. `DaemonAt` does the same for SIGALRM. `HolderHasLock` needs the lock
table as a whole: `Compatible` (a write lock excludes all others), which every grant
checks, and `HoldAt` for the request a blocked process will be granted.

`NoWakeupLost` and `KilledFreeLocks` are the safety cores of two liveness
properties. `SuspendInv` follows the mask of `simpleSuspend.c`: the three signals are
blocked until `sigsuspend()` replaces the mask and waits in one step, and by then
their handlers are in place. So a signal that came early is still pending, is
deliverable at the wait, and leaves the pending set only by ending it, and none of
the three kills the program once they are blocked. For the locks, `DeadInv` says that
who has ended holds none, and `KillInv` that the pids `killfrom.c` has passed belong
to processes that have ended; if it survives its loop, no lock is in the way of a
waiter all of whose rivals were in the range.

`DaemonLeavesGroup` needs that nobody enters the group again (`GroupShrinks`) and
`GroupInv`: past `setsid()` a daemon that does not lead the group is no longer in
it, and if it was killed earlier, or by its pid, the loop of `killfrom.c` that did
so has passed that pid. It holds whether or not the `setsid()` of other daemons
succeeds; `AlarmWindow` does not depend on `setsid()` at all.

Model-checked only: liveness, since fairness and ENABLED are outside the prover's
reach. These are `CondvarAllConsumed`, `PollingEnds`,
`EveryRequestAnswered`, `DisconnectNoticed`, `JoinTermEnds`, `EchoOutcome` and
`TransferEnds`, and the progress in `CancelOutcome`, `ZombiesReaped`, `SuspendWakes`
and `KillFreesWaiters`, whose safety parts are proved. Every invariant, action property
and refinement of a passing run is a theorem.

## 5. What the runs found

1. `producer_consumer_model.c:56` (`pc_stuck`): the signal is sent when
   `j % 10 == 0` only. After the signal of j = 19990 the consumer may drain, find
   nothing and sleep; iterations 19991..19999 send no signal, and both the
   consumer and the joining `main()` stay asleep. The comment of line 18 speaks of
   units that "will be produced and consumed".
2. `multi_thread_server.c:82` (`threads_wake`): `raise()` in a threaded program
   signals the calling thread. `main()`, asleep in `sigsuspend()` because all
   slots are taken, is not woken when a thread leaves, contrary to the message of
   line 28. Only a SIGUSR1 sent to the process from outside wakes it. This is the
   shortest way to break `CanAcceptAgain`, not the only one: a worker that leaves
   between `main()`'s scan and its `sigsuspend()` is not noticed, and if `on = 1`
   (line 146) comes after the worker's own `on = 0` the slot is taken for good.
   Each of the three alone violates the property, and a model with all three
   repaired satisfies it.
3. `multi_processor_server.c:126` (`procs_first`): `=` binds weaker than `==`, so
   `communicatefd` is 0 whatever `accept()` returned. The child of the first
   connection reads standard input; later connections land on descriptor 0, which
   the parent has closed meanwhile, and are served; a child whose connection ends
   falls back into the accept loop.
4. `thread_multijoin.c:111` (`multijoin_walk`): lines 111-113 are outside the `if`
   block, so one walk of `main()` marks every thread TS_JOINED, which line 27
   explains as "thread terminated, and joined", while some are alive and were never
   joined; `numLive` is then zero and the program ends with threads running.
5. `t_thread_cleanup.c:93` (`cleanup_signal`): the branch that is to "terminate the
   thread normally" (line 89) signals the condition before it sets `glob`, without
   the mutex. A thread that tests `glob` before the assignment and waits after the
   signal sleeps for ever, and `main()` with it in `pthread_join()`.

Behaviours the models keep because the code has them, and which the properties
are worded around:

* `prod_no_condvar.c`: a negative argument lowers the total (line 61); with no
  unit to consume `done` is never computed (line 88) and `main()` polls for ever.
* `myEpollReactor.c`: the error branch of `sendData` calls `eventdel()` twice,
  and the second call makes `epoll_ctl()` fail and the server exit; a connection
  accepted with no free slot is neither served nor closed (line 171), and an
  `accept()` or `epoll_wait()` that fails ends the server.
* `multi_thread_server.c`: a connection accepted in the retry loop is overwritten
  (line 140), the read-error and stop-password paths leave their descriptor open,
  and a SIGPIPE ends all workers (line 79).
* `HSocket.c`: the condition of line 122 assigns, so a `close()` that fails is
  repeated for ever ("spinning"); `Accept()` exits on EINTR.
* `tcpClient.c`: nobody reads the answers to the stop passwords; enough of them
  fill both directions, and the handler never returns. At the end of the stream
  the client goes on (line 81). `client.c` also reads after it wrote nothing, and
  then waits for an answer to nothing.
* `thread_inc.c`: with two or more loops `glob` may be 2 in the end.
* `abort.c`: line 42 tests the handler's mask, not the process mask; if SIGABRT is
  blocked and the handler's mask does not hold it, the first `kill()` stays
  pending until line 56, and the handler does not run.
* `daemon_1.c`: an alarm before line 59 kills the daemon. A daemon whose `fork()`
  failed and which leads its process group stays in it, as `setsid()` fails
  unnoticed (line 42).
* `i_fcntl_locking.c`: a refused F_SETLK prints through a conversion without an
  argument (line 113), which may end the process and free its locks.

## 6. What is checked of the abstraction

* Each property has at least one faulty variant of a mapped definition under
  which TLC finds it violated (`mutants` in `PROJECT.json`).
* Every disjunct of every next-state relation is taken in some passing run.
* `map` in `PROJECT.json` gives the source lines of each definition.

## 7. Not modelled, and the plan

* `t_pthread_rdlock.c`: eight endless loops around `pthread_rwlock_rdlock`,
  `_wrlock` and `_unlock`. The program keeps no state beside the lock, so a model
  would be one of the library's lock; whether writers starve depends on which side
  that lock prefers, and the program states no expectation.
* `t_pthread_equal.c` prints a line and ends.
* In `killfrom.c`, negative pids (process groups, all processes) and a `kill()`
  refused with EPERM: the processes of the model belong to one user; in the lock
  programs, the arithmetic of whence, start and length; in the clients, what is in
  the buffer after a failed `fgets()` (any line the model can choose); message
  texts, addresses and logs everywhere.
* Undefined behaviour treated as harmless: the array of `thread_multijoin.c:75`,
  allocated with the size of a pointer per thread, and the invalid
  conversion in the F_GETLK message of `i_fcntl_locking.c:100`. (The conversion
  without an argument of line 113 may end the process.)
* `multi_processor_server.c` has an `Accept()` of its own that is never called.

Nothing is left of the plan but liveness: the fairness arguments of section 3 are
checked by TLC on the instances listed there and are not proved for every size.
