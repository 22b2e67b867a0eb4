------------------------- MODULE MultiThreadServer --------------------------
(***************************************************************************)
(* webprogramming/multi_thread_server.c: main() looks for a slot of socks  *)
(* that is off, accepts a connection into it and starts a detached thread  *)
(* for it; with every slot on, it sleeps in sigsuspend() until SIGUSR1.    *)
(* main() and the workers share socks without any lock.  The kernel side   *)
(* (descriptors, the accept queue, the peers) is modelled as far as the    *)
(* calls made by the code observe it.  A write() is taken to end: clients  *)
(* read their replies.                                                     *)
(***************************************************************************)
EXTENDS Integers, Sequences, FiniteSets, FiniteSetsExt, Functions

CONSTANTS
    Clients,            \* each connects at most once
    NoClient,           \* a descriptor that is not open
    THREAD_LIMIT,       \* number of slots; 3 in the code
    FdLimit,            \* connection descriptors are 1..FdLimit
    MaxSend             \* segments a client sends (bound)

ASSUME SizesAssumption ==
    /\ THREAD_LIMIT \in Nat \ {0} /\ FdLimit \in Nat \ {0} /\ MaxSend \in Nat
ASSUME NoClientAssumption == NoClient \notin Clients

VARIABLES
    server,             \* "boot", "up", or how the process ended
    main,               \* where main()'s loop is
    i,                  \* main()'s slot index
    socks,              \* the shared slots: on, cfd
    worker,             \* per client: where its thread is, and its slot
    file,               \* the client behind each open descriptor
    queue,              \* established connections waiting for accept()
    peer,               \* what each client's end has done: idle, up, fin, rst
    toSend,             \* segments each client may still send
    rcv                 \* segments received from the client and not read

mainVars == <<main, i>>
peerVars == <<peer, toSend, rcv>>
vars == <<server, mainVars, socks, worker, file, queue, peerVars>>

Slots == 0..(THREAD_LIMIT - 1)
Fds == 1..FdLimit
FreeFds == {fd \in Fds : file[fd] = NoClient}

Init ==
    /\ server = "boot"
    /\ main = "scan" /\ i = 0
    /\ socks = [s \in Slots |-> [on |-> 0, cfd |-> 0]]
    /\ worker = [c \in Clients |-> [pc |-> "none", slot |-> 0]]
    /\ file = [fd \in Fds |-> NoClient]
    /\ queue = <<>>
    /\ peer = [c \in Clients |-> "idle"]
    /\ toSend = [c \in Clients |-> MaxSend]
    /\ rcv = [c \in Clients |-> 0]

\* socket(), bind() and listen() are checked; errExit() when one fails.
Boot ==
    /\ server = "boot"
    /\ server' \in {"up", "exit"}
    /\ UNCHANGED <<mainVars, socks, worker, file, queue, peerVars>>

-----------------------------------------------------------------------------
(* main()'s loop.                                                           *)

\* A scan that takes the slot it looks at without testing on.
ScanIgnoringOn ==
    /\ server = "up"
    /\ main = "scan"
    /\ main' = IF i < THREAD_LIMIT THEN "accept" ELSE "suspend"
    /\ UNCHANGED <<server, i, socks, worker, file, queue, peerVars>>

\* One slot a step: workers run between two tests of the scan.
Scan ==
    /\ server = "up"
    /\ main = "scan"
    /\ \/ /\ i < THREAD_LIMIT /\ socks[i].on = 0
          /\ main' = "accept" /\ UNCHANGED i
       \/ /\ i < THREAD_LIMIT /\ socks[i].on # 0
          /\ i' = i + 1 /\ UNCHANGED main
       \/ /\ i >= THREAD_LIMIT
          /\ main' = "suspend" /\ UNCHANGED i
    /\ UNCHANGED <<server, socks, worker, file, queue, peerVars>>

\* socks[i].cfd = accept(): it fails at once when no descriptor is left, and
\* otherwise blocks until a connection is there.
AcceptInto(ok, failed) ==
    /\ \/ /\ FreeFds = {}
          /\ socks' = [socks EXCEPT ![i].cfd = -1]
          /\ main' = failed
          /\ UNCHANGED <<file, queue>>
       \/ /\ FreeFds # {} /\ queue # <<>>
          /\ socks' = [socks EXCEPT ![i].cfd = Min(FreeFds)]
          /\ file' = [file EXCEPT ![Min(FreeFds)] = Head(queue)]
          /\ queue' = Tail(queue)
          /\ main' = ok
    /\ UNCHANGED <<server, i, worker, peerVars>>

Accept ==
    /\ server = "up"
    /\ main = "accept"
    /\ AcceptInto("create", "again")

\* The accept() in the loop body: whatever it returns, the loop condition
\* accepts once more and overwrites cfd.
AcceptAgain ==
    /\ server = "up"
    /\ main = "again"
    /\ AcceptInto("accept", "accept")

\* pthread_create(); errExit() when it fails.
Create ==
    /\ server = "up"
    /\ main = "create"
    /\ \/ /\ worker' = [worker EXCEPT ![file[socks[i].cfd]] = [pc |-> "read", slot |-> i]]
          /\ main' = "set_on"
          /\ UNCHANGED server
       \/ /\ server' = "exit"
          /\ UNCHANGED <<main, worker>>
    /\ UNCHANGED <<i, socks, file, queue, peerVars>>

\* The thread is already running when its slot is turned on; pthread_detach(),
\* with errExit() when it fails, and the next iteration follow.
SetOn ==
    /\ server = "up"
    /\ main = "set_on"
    /\ socks' = [socks EXCEPT ![i].on = 1]
    /\ server' \in {"up", "exit"}
    /\ main' = "scan"
    /\ i' = 0
    /\ UNCHANGED <<worker, file, queue, peerVars>>

\* A SIGUSR1 from outside reaches main() and ends sigsuspend().  One that
\* arrives elsewhere only prints.
Wake ==
    /\ server = "up"
    /\ main = "suspend"
    /\ main' = "scan"
    /\ i' = 0
    /\ UNCHANGED <<server, socks, worker, file, queue, peerVars>>

Main == Boot \/ Scan \/ Accept \/ AcceptAgain \/ Create \/ SetOn

-----------------------------------------------------------------------------
(* worker(), the thread started for client c.  Every call goes through      *)
(* sock->cfd, the shared slot.                                              *)

cfd(c) == socks[worker[c].slot].cfd
Goto(c, pc) == worker' = [worker EXCEPT ![c].pc = pc]

\* A worker that gives its slot up on end of file, before it closes.
WorkerReadFreesFirst(c) ==
    LET p == file[cfd(c)]
    IN  /\ server = "up"
        /\ worker[c].pc = "read"
        /\ \/ /\ rcv[p] > 0
              /\ rcv' = [rcv EXCEPT ![p] = @ - 1]
              /\ Goto(c, "write") /\ UNCHANGED socks
           \/ /\ rcv[p] = 0 /\ peer[p] \in {"fin", "rst"}
              /\ socks' = [socks EXCEPT ![worker[c].slot].on = 0]
              /\ Goto(c, "close") /\ UNCHANGED rcv
        /\ UNCHANGED <<server, mainVars, file, queue, peer, toSend>>

\* read() and the branch on its result.  The buffer is not terminated, so
\* whether it compares equal to the stop password depends on stale bytes too.
WorkerRead(c) ==
    LET p == file[cfd(c)]
    IN  /\ server = "up"
        /\ worker[c].pc = "read"
        /\ \/ /\ rcv[p] > 0
              /\ \E left \in 0..(rcv[p] - 1) : rcv' = [rcv EXCEPT ![p] = left]
              /\ Goto(c, "write") \/ Goto(c, "off")
           \/ /\ rcv[p] = 0 /\ peer[p] \in {"fin", "rst"}
              /\ Goto(c, "close")
              /\ UNCHANGED rcv
           \/ /\ rcv[p] = 0 /\ peer[p] = "rst"     \* len == -1: not closed
              /\ Goto(c, "off_error")
              /\ UNCHANGED rcv
        /\ UNCHANGED <<server, mainVars, socks, file, queue, peer, toSend>>

\* The result of write() is ignored; on a reset connection it may raise
\* SIGPIPE, which ends the process.
WorkerWrite(c) ==
    /\ server = "up"
    /\ worker[c].pc = "write"
    /\ \/ Goto(c, "read") /\ UNCHANGED server
       \/ peer[file[cfd(c)]] = "rst" /\ server' = "sigpipe" /\ UNCHANGED worker
    /\ UNCHANGED <<mainVars, socks, file, queue, peerVars>>

\* A worker that misses the break after close().
WorkerCloseNoBreak(c) ==
    /\ server = "up"
    /\ worker[c].pc = "close"
    /\ file' = [file EXCEPT ![cfd(c)] = NoClient]
    /\ Goto(c, "write")
    /\ UNCHANGED <<server, mainVars, socks, queue, peerVars>>

WorkerClose(c) ==
    /\ server = "up"
    /\ worker[c].pc = "close"
    /\ file' = [file EXCEPT ![cfd(c)] = NoClient]
    /\ Goto(c, "off")
    /\ UNCHANGED <<server, mainVars, socks, queue, peerVars>>

\* sock->on = 0; the read error path skips raise().
WorkerOff(c) ==
    /\ server = "up"
    /\ worker[c].pc \in {"off", "off_error"}
    /\ socks' = [socks EXCEPT ![worker[c].slot].on = 0]
    /\ Goto(c, IF worker[c].pc = "off" THEN "raise" ELSE "gone")
    /\ UNCHANGED <<server, mainVars, file, queue, peerVars>>

\* raise(SIGUSR1) sends the signal to the calling thread: wake() runs here,
\* main() is not interrupted.
WorkerRaise(c) ==
    /\ server = "up"
    /\ worker[c].pc = "raise"
    /\ Goto(c, "gone")
    /\ UNCHANGED <<server, mainVars, socks, file, queue, peerVars>>

Worker(c) == WorkerRead(c) \/ WorkerWrite(c) \/ WorkerClose(c)
                \/ WorkerOff(c) \/ WorkerRaise(c)

-----------------------------------------------------------------------------
(* The clients and the network.                                             *)

Connect(c) ==
    /\ server = "up"
    /\ peer[c] = "idle"
    /\ peer' = [peer EXCEPT ![c] = "up"]
    /\ queue' = Append(queue, c)
    /\ UNCHANGED <<server, mainVars, socks, worker, file, toSend, rcv>>

ClientSend(c) ==
    /\ server = "up"
    /\ peer[c] = "up" /\ toSend[c] > 0
    /\ toSend' = [toSend EXCEPT ![c] = @ - 1]
    /\ rcv' = [rcv EXCEPT ![c] = @ + 1]
    /\ UNCHANGED <<server, mainVars, socks, worker, file, queue, peer>>

ClientClose(c) ==
    /\ server = "up"
    /\ \/ peer[c] = "up" /\ peer' = [peer EXCEPT ![c] = "fin"]
       \/ peer[c] \in {"up", "fin"} /\ peer' = [peer EXCEPT ![c] = "rst"]
    /\ UNCHANGED <<server, mainVars, socks, worker, file, queue, toSend, rcv>>

Client(c) == Connect(c) \/ ClientSend(c) \/ ClientClose(c)

\* Everyone waits for a client: main() in accept() or sigsuspend(), the
\* workers in read().
Idle ==
    /\ server = "up"
    /\ main = "suspend" \/ (main \in {"accept", "again"} /\ queue = <<>> /\ FreeFds # {})
    /\ \A c \in Clients : worker[c].pc \in {"none", "read", "gone"}
    /\ UNCHANGED vars

Terminated ==
    /\ server \notin {"boot", "up"}
    /\ UNCHANGED vars

Next ==
    \/ Main
    \/ Wake
    \/ \E c \in Clients : Worker(c) \/ Client(c)
    \/ Idle
    \/ Terminated

Spec == Init /\ [][Next]_vars

(***************************************************************************)
(* The scheduler runs every thread that can run.  Nothing is expected of   *)
(* the clients, and nobody outside has to send SIGUSR1.                    *)
(***************************************************************************)
FairSpec == Spec /\ WF_vars(Main) /\ \A c \in Clients : WF_vars(Worker(c))

-----------------------------------------------------------------------------
Serving(c) == worker[c].pc \in {"read", "write", "close"}

\* Every variable has its type.
TypeOK ==
    /\ server \in {"boot", "up", "exit", "sigpipe"}
    /\ main \in {"scan", "accept", "again", "create", "set_on", "suspend"}
    /\ i \in 0..THREAD_LIMIT
    /\ socks \in [Slots -> [on : 0..1, cfd : -1..FdLimit]]
    /\ worker \in [Clients -> [pc : {"none", "read", "write", "close", "off",
                                     "off_error", "raise", "gone"}, slot : Slots]]
    /\ file \in [Fds -> Clients \union {NoClient}]
    /\ Range(queue) \subseteq Clients /\ Len(queue) <= Cardinality(Clients)
    /\ peer \in [Clients -> {"idle", "up", "fin", "rst"}]
    /\ toSend \in [Clients -> 0..MaxSend]
    /\ rcv \in [Clients -> 0..MaxSend]

(***************************************************************************)
(* Without a lock on socks, a serving thread still reads, writes and       *)
(* closes its own connection only: the descriptor in its slot is open and  *)
(* is the one accepted for it, and no other serving thread has the slot    *)
(* (so at most THREAD_LIMIT connections are served at a time).             *)
(***************************************************************************)
ServesOwnClient ==
    \A c \in Clients : Serving(c) =>
      /\ cfd(c) \in Fds /\ file[cfd(c)] = c
      /\ \A d \in Clients \ {c} : Serving(d) => worker[d].slot # worker[c].slot

(***************************************************************************)
(* multi_thread_server.c:28 says "one thread leaves, server can accept     *)
(* request again": once a thread has turned its slot off and announces     *)
(* that it leaves, main() gets to accept() in a slot.                      *)
(***************************************************************************)
CanAcceptAgain ==
    \A c \in Clients :
      worker[c].pc = "raise" ~> main \in {"accept", "again"} \/ server # "up"

\* What the server does with client c.  An open descriptor that no thread was
\* started for, and that main() no longer knows, is neglected.
Phase(c) ==
    LET lost == \E fd \in Fds : file[fd] = c /\ ~(main = "create" /\ socks[i].cfd = fd)
        pc   == worker[c].pc
    IN  IF server \notin {"boot", "up"} THEN "closed"
        ELSE CASE pc = "none"  -> IF lost THEN "neglected" ELSE "none"
               [] pc = "read"  -> "reading"
               [] pc = "write" -> "replying"
               [] OTHER        -> "closed"

\* The phases of the abstract server are what the threads do with each client.
Abstract == INSTANCE RequestReply WITH
    phase  <- [c \in Clients |-> Phase(c)],
    halted <- server \notin {"boot", "up"}

(***************************************************************************)
(* The threaded server is a request-reply server for each of its clients:  *)
(* a worker answers each read() with one write() and stops for good after  *)
(* the end of its connection; a connection whose thread was never started, *)
(* or that the accept() retry loop dropped, is neglected for ever.         *)
(***************************************************************************)
ImplementsRequestReply == Abstract!Spec
=============================================================================
