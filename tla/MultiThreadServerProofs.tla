----------------------- MODULE MultiThreadServerProofs ----------------------
(***************************************************************************)
(* multi_thread_server.c for every number of clients, slots, descriptors   *)
(* and segments: the threads share socks without a lock, and each still    *)
(* serves its own connection only.                                         *)
(***************************************************************************)
EXTENDS MultiThreadServer, AcceptQueueLemmas

\* A thread that has not given its slot up.
Active(c) == worker[c].pc \in {"read", "write", "close", "off", "off_error"}

\* What a thread's record and a slot of socks hold.
Pcs == {"none", "read", "write", "close", "off", "off_error", "raise", "gone"}
Threads == [pc : Pcs, slot : Slots]
SockData == [on : 0..1, cfd : -1..FdLimit]

\* Every variable has its type.
Types ==
    /\ server \in {"boot", "up", "exit", "sigpipe"}
    /\ main \in {"scan", "accept", "again", "create", "set_on", "suspend"}
    /\ i \in 0..THREAD_LIMIT
    /\ socks \in [Slots -> SockData]
    /\ worker \in [Clients -> Threads]
    /\ file \in [Fds -> Clients \union {NoClient}]
    /\ queue \in Seq(Clients)
    /\ peer \in [Clients -> {"idle", "up", "fin", "rst"}]
    /\ toSend \in [Clients -> Nat]
    /\ rcv \in [Clients -> Nat]

\* A connection is in the queue, behind one descriptor or closed, and there is
\* none before its client connects.
Connections ==
    /\ Distinct(queue)
    /\ \A c \in Clients : InQ(c, queue) =>
         peer[c] # "idle" /\ worker[c].pc = "none" /\ \A fd \in Fds : file[fd] # c
    /\ \A fd \in Fds : file[fd] # NoClient => peer[file[fd]] # "idle"
    /\ \A fd, gd \in Fds : file[fd] = file[gd] /\ file[fd] # NoClient => fd = gd
    /\ \A c \in Clients : worker[c].pc # "none" => peer[c] # "idle"

\* The slot main() fills is inside socks and off; the one it starts a thread
\* for holds an accepted connection that has no thread yet.
Filling ==
    /\ main \in {"accept", "again", "create", "set_on"} => i < THREAD_LIMIT
    /\ main \in {"accept", "again", "create"} =>
         socks[i].on = 0 /\ \A c \in Clients : Active(c) => worker[c].slot # i
    /\ main = "create" =>
         /\ socks[i].cfd \in Fds /\ file[socks[i].cfd] # NoClient
         /\ worker[file[socks[i].cfd]].pc = "none"

\* A slot has one active thread, and is on unless main() is about to say so.
Held ==
    /\ \A c \in Clients : Active(c) =>
         \/ socks[worker[c].slot].on = 1
         \/ main = "set_on" /\ worker[c].slot = i
    /\ \A c, d \in Clients : Active(c) /\ Active(d) /\ c # d =>
         worker[c].slot # worker[d].slot

IndInv == Types /\ Connections /\ Filling /\ Held /\ ServesOwnClient

-----------------------------------------------------------------------------
\* The assignments to one field of worker and of socks.
Moved(f, c, p)   == [f EXCEPT ![c].pc = p]
Flagged(f, s, v) == [f EXCEPT ![s].on = v]
WithCfd(f, s, v) == [f EXCEPT ![s].cfd = v]

\* A thread moves to program point p and keeps its slot.
LEMMA ThreadMoves ==
    ASSUME NEW f \in [Clients -> Threads], NEW c \in Clients, NEW p \in Pcs,
           NEW g, g = Moved(f, c, p)
    PROVE  /\ g \in [Clients -> Threads]
           /\ g[c].pc = p /\ g[c].slot = f[c].slot
           /\ \A d \in Clients : g[d].slot = f[d].slot
           /\ \A d \in Clients : d # c => g[d] = f[d]
<1>1. f[c] \in Threads
  OBVIOUS
<1>2. [f[c] EXCEPT !.pc = p] \in Threads
  BY <1>1 DEF Threads
<1>3. [f[c] EXCEPT !.pc = p].pc = p /\ [f[c] EXCEPT !.pc = p].slot = f[c].slot
  BY <1>1 DEF Threads
<1> QED BY <1>2, <1>3 DEF Moved

\* The flag of a slot is assigned.
LEMMA FlagAssigned ==
    ASSUME NEW f \in [Slots -> SockData], NEW s \in Slots, NEW v \in 0..1,
           NEW g, g = Flagged(f, s, v)
    PROVE  /\ g \in [Slots -> SockData] /\ g[s].on = v
           /\ \A r \in Slots : g[r].cfd = f[r].cfd
           /\ \A r \in Slots : r # s => g[r] = f[r]
<1>1. f[s] \in SockData
  OBVIOUS
<1>2. /\ [f[s] EXCEPT !.on = v] \in SockData /\ [f[s] EXCEPT !.on = v].on = v
      /\ [f[s] EXCEPT !.on = v].cfd = f[s].cfd
  BY <1>1 DEF SockData
<1> QED BY <1>2 DEF Flagged

\* The descriptor of a slot is assigned.
LEMMA CfdAssigned ==
    ASSUME NEW f \in [Slots -> SockData], NEW s \in Slots, NEW v \in -1..FdLimit,
           NEW g, g = WithCfd(f, s, v)
    PROVE  /\ g \in [Slots -> SockData] /\ g[s].cfd = v
           /\ \A r \in Slots : g[r].on = f[r].on
           /\ \A r \in Slots : r # s => g[r] = f[r]
<1>1. f[s] \in SockData
  OBVIOUS
<1>2. /\ [f[s] EXCEPT !.cfd = v] \in SockData /\ [f[s] EXCEPT !.cfd = v].cfd = v
      /\ [f[s] EXCEPT !.cfd = v].on = f[s].on
  BY <1>1 DEF SockData
<1> QED BY <1>2 DEF WithCfd

-----------------------------------------------------------------------------
\* No thread and no connection exists when the server boots.
LEMMA IndInvInit == Init => IndInv
<1> SUFFICES ASSUME Init PROVE IndInv
  OBVIOUS
<1> USE SizesAssumption DEF Init, Slots, Fds
<1>0. [on |-> 0, cfd |-> 0] \in SockData /\ [pc |-> "none", slot |-> 0] \in Threads
  BY DEF SockData, Threads, Pcs
<1>1. Types
  BY <1>0 DEF Types
<1>2. \A c : ~InQ(c, <<>>)
  BY DEF InQ
<1>3. Distinct(<<>>)
  BY DEF Distinct
<1>4. \A c \in Clients : worker[c].pc = "none"
  OBVIOUS
<1>5. Connections
  BY <1>2, <1>3, NoClientAssumption DEF Connections
<1> QED BY <1>1, <1>4, <1>5 DEF IndInv, Filling, Held, ServesOwnClient, Serving, Active

\* A scan that finds slot i off finds it without an active thread.
LEMMA ScanPreserves == IndInv /\ (Boot \/ Scan \/ Wake) => IndInv'
<1> SUFFICES ASSUME IndInv, Boot \/ Scan \/ Wake PROVE IndInv'
  OBVIOUS
<1> USE SizesAssumption DEF IndInv
<1>1. UNCHANGED <<socks, worker, file, queue, peerVars>>
  BY DEF Boot, Scan, Wake
<1>2. Types'
  BY <1>1 DEF Types, peerVars, Boot, Scan, Wake, mainVars
<1>3. Connections'
  BY <1>1 DEF Connections, peerVars
<1>4. ServesOwnClient'
  BY <1>1 DEF ServesOwnClient, Serving, cfd
<1>5. Filling' /\ Held'
  <2>1. CASE Boot
    BY <1>1, <2>1 DEF Boot, Filling, Held, mainVars, Active
  <2>2. CASE Scan
    <3>1. main = "scan" /\ i \in Nat /\ THREAD_LIMIT \in Nat
      BY <2>2 DEF Scan, Types
    <3>2. CASE main' = "accept"
      <4>1. i < THREAD_LIMIT /\ socks[i].on = 0 /\ i' = i
        BY <2>2, <3>1, <3>2 DEF Scan
      <4> QED BY <1>1, <3>1, <3>2, <4>1 DEF Filling, Held, Active
    <3>3. CASE main' \in {"scan", "suspend"}
      BY <1>1, <3>1, <3>3 DEF Filling, Held, Active
    <3> QED BY <2>2, <3>1, <3>2, <3>3 DEF Scan
  <2>3. CASE Wake
    BY <1>1, <2>3 DEF Wake, Filling, Held, Active, Types
  <2> QED BY <2>1, <2>2, <2>3
<1> QED BY <1>2, <1>3, <1>4, <1>5

\* multi_thread_server.c, accept() in the loop condition and in the loop body.
LEMMA AcceptPreserves ==
    ASSUME IndInv, main \in {"accept", "again"}, NEW ok, NEW failed,
           ok \in {"create", "accept"}, failed \in {"accept", "again"},
           AcceptInto(ok, failed)
    PROVE  IndInv'
<1> USE SizesAssumption, NoClientAssumption DEF IndInv
<1>1. i \in Slots /\ UNCHANGED <<server, i, worker, peer, toSend, rcv>>
  BY DEF Types, Filling, AcceptInto, peerVars, Slots
<1>t. socks \in [Slots -> SockData] /\ worker \in [Clients -> Threads]
  BY DEF IndInv, Types
<1>0. \A c \in Clients : worker[c].slot \in Slots
  BY DEF Types, Threads
<1>2. CASE FreeFds = {}
  <2>1. /\ socks' = WithCfd(socks, i, -1) /\ main' = failed
        /\ UNCHANGED <<file, queue>>
    BY <1>2 DEF AcceptInto, WithCfd
  <2>2. -1 \in -1..FdLimit
    OBVIOUS
  <2>3. /\ socks' \in [Slots -> SockData]
        /\ \A s \in Slots : socks'[s].on = socks[s].on
        /\ \A s \in Slots : s # i => socks'[s] = socks[s]
    BY <1>t, <1>1, <2>1, <2>2, CfdAssigned
  <2>4. Types'
    BY <1>1, <2>1, <2>3 DEF Types
  <2>5. Connections'
    BY <1>1, <2>1 DEF Connections
  <2>6. Filling' /\ Held'
    BY <1>0, <1>1, <2>1, <2>3 DEF Filling, Held, Active
  <2>7. ServesOwnClient'
    BY <1>0, <1>1, <2>1, <2>3 DEF ServesOwnClient, Serving, cfd, Filling, Active
  <2> QED BY <2>4, <2>5, <2>6, <2>7
<1>3. CASE FreeFds # {}
  <2> DEFINE m == Min(FreeFds)  w == Head(queue)
  <2>1. /\ queue # <<>> /\ socks' = WithCfd(socks, i, m)
        /\ file' = [file EXCEPT ![m] = w]
        /\ queue' = Tail(queue) /\ main' = ok
    BY <1>3 DEF AcceptInto, WithCfd
  <2>2. m \in Fds /\ file[m] = NoClient
    <3>1. FreeFds \in SUBSET Nat
      BY DEF FreeFds, Fds
    <3> QED BY <1>3, <3>1, LeastExists DEF FreeFds
  <2>3. /\ w \in Clients /\ InQ(w, queue)
        /\ queue' \in Seq(Clients) /\ Distinct(queue')
        /\ \A c : InQ(c, queue') => InQ(c, queue) /\ c # w
    BY <2>1, QueueHead DEF Types, Connections
  <2> HIDE DEF m, w
  <2>4. m \in -1..FdLimit
    BY <2>2 DEF Fds
  <2>5. /\ socks' \in [Slots -> SockData]
        /\ socks'[i].cfd = m /\ \A s \in Slots : socks'[s].on = socks[s].on
        /\ \A s \in Slots : s # i => socks'[s] = socks[s]
    BY <1>t, <1>1, <2>1, <2>4, CfdAssigned
  <2>6. /\ file' \in [Fds -> Clients \union {NoClient}]
        /\ file'[m] = w /\ \A fd \in Fds : fd # m => file'[fd] = file[fd]
    BY <2>1, <2>2, <2>3 DEF Types
  <2>7. Types'
    BY <1>1, <2>1, <2>3, <2>5, <2>6 DEF Types
  <2>8. Connections'
    BY <1>1, <2>1, <2>2, <2>3, <2>6 DEF Connections, Types
  <2>9. Filling'
    BY <1>1, <2>1, <2>2, <2>3, <2>5, <2>6 DEF Filling, Active, Connections
  <2>10. Held'
    BY <1>0, <1>1, <2>1, <2>5 DEF Filling, Held, Active
  <2>11. ServesOwnClient'
    BY <1>0, <1>1, <2>2, <2>3, <2>5, <2>6 DEF ServesOwnClient, Serving, cfd, Filling, Active
  <2> QED BY <2>7, <2>8, <2>9, <2>10, <2>11
<1> QED BY <1>2, <1>3

\* pthread_create() starts a thread for the connection just accepted.
LEMMA CreatePreserves == IndInv /\ Create => IndInv'
<1> SUFFICES ASSUME IndInv, Create PROVE IndInv'
  OBVIOUS
<1> USE SizesAssumption, NoClientAssumption DEF IndInv
<1> DEFINE w == file[socks[i].cfd]
<1>1. /\ main = "create" /\ i \in Slots /\ socks[i].cfd \in Fds /\ w \in Clients
      /\ worker[w].pc = "none" /\ ~InQ(w, queue) /\ peer[w] # "idle"
      /\ UNCHANGED <<i, socks, file, queue, peer, toSend, rcv>>
  BY DEF Create, Filling, Types, Slots, Connections, peerVars
<1>2. CASE server' = "exit" /\ UNCHANGED <<main, worker>>
  BY <1>1, <1>2 DEF Types, Connections, Filling, Held, ServesOwnClient, Serving, cfd, Active
<1>3. CASE /\ worker' = [worker EXCEPT ![w] = [pc |-> "read", slot |-> i]]
           /\ main' = "set_on" /\ UNCHANGED server
  <2> HIDE DEF w
  <2>0. [pc |-> "read", slot |-> i] \in Threads
    BY <1>1 DEF Threads, Pcs
  <2>1. /\ worker' \in [Clients -> Threads]
        /\ worker'[w].pc = "read" /\ worker'[w].slot = i
        /\ \A c \in Clients : c # w => worker'[c] = worker[c]
    BY <1>1, <1>3, <2>0 DEF Types
  <2>2. Types'
    BY <1>1, <1>3, <2>1 DEF Types
  <2>3. Connections'
    BY <1>1, <2>1 DEF Connections
  <2>4. Filling'
    BY <1>1, <1>3 DEF Filling
  <2>5. Held'
    BY <1>1, <1>3, <2>1 DEF Filling, Held, Active
  <2>6. ServesOwnClient'
    BY <1>1, <2>1 DEF ServesOwnClient, Serving, cfd, Filling, Active, w
  <2> QED BY <2>2, <2>3, <2>4, <2>5, <2>6
<1> QED BY <1>2, <1>3 DEF Create

\* The slot is turned on after its thread has started.
LEMMA SetOnPreserves == IndInv /\ SetOn => IndInv'
<1> SUFFICES ASSUME IndInv, SetOn PROVE IndInv'
  OBVIOUS
<1> USE SizesAssumption DEF IndInv
<1>1. /\ main = "set_on" /\ i \in Slots /\ main' = "scan" /\ i' = 0
      /\ socks' = Flagged(socks, i, 1)
      /\ server' \in {"up", "exit"}
      /\ UNCHANGED <<worker, file, queue, peer, toSend, rcv>>
  BY DEF SetOn, Flagged, Filling, Types, Slots, peerVars
<1>t. socks \in [Slots -> SockData] /\ worker \in [Clients -> Threads]
  BY DEF IndInv, Types
<1>0. \A c \in Clients : worker[c].slot \in Slots
  BY DEF Types, Threads
<1>b. 1 \in 0..1
  OBVIOUS
<1>2. /\ socks' \in [Slots -> SockData]
      /\ socks'[i].on = 1 /\ \A s \in Slots : s # i => socks'[s] = socks[s]
      /\ \A s \in Slots : socks'[s].cfd = socks[s].cfd
  BY <1>t, <1>1, <1>b, FlagAssigned
<1>3. Types'
  BY <1>1, <1>2 DEF Types
<1>4. Connections' /\ Filling'
  BY <1>1 DEF Connections, Filling
<1>5. Held'
  BY <1>0, <1>1, <1>2 DEF Held, Active
<1>6. ServesOwnClient'
  BY <1>0, <1>1, <1>2 DEF ServesOwnClient, Serving, cfd
<1> QED BY <1>3, <1>4, <1>5, <1>6

\* A thread that goes on with its connection, or gives it up, touches no other.
LEMMA WorkerPreserves == ASSUME NEW c \in Clients, IndInv, Worker(c) PROVE IndInv'
<1> USE SizesAssumption, NoClientAssumption DEF IndInv
<1>t. socks \in [Slots -> SockData] /\ worker \in [Clients -> Threads]
  BY DEF IndInv, Types
<1>1. CASE WorkerRead(c) \/ WorkerWrite(c) \/ WorkerRaise(c)
  <2>0. Serving(c) => file[cfd(c)] = c
    BY DEF ServesOwnClient
  <2>1. UNCHANGED <<mainVars, socks, file, queue, peer, toSend>>
    BY <1>1 DEF WorkerRead, WorkerWrite, WorkerRaise, peerVars
  <2>2. /\ worker[c].pc \in {"read", "write", "raise"}
        /\ \E pc \in {"read", "write", "close", "off", "off_error", "gone"} :
             /\ worker' = worker \/ worker' = Moved(worker, c, pc)
             /\ worker[c].pc = "raise" => worker' = Moved(worker, c, "gone")
    BY <1>1 DEF WorkerRead, WorkerWrite, WorkerRaise, Goto, Moved
  <2>3. /\ worker' \in [Clients -> Threads]
        /\ worker'[c].slot = worker[c].slot
        /\ \A d \in Clients : d # c => worker'[d] = worker[d]
        /\ worker'[c].pc # "none"
        /\ worker[c].pc = "raise" => worker'[c].pc = "gone"
    <3>1. CASE worker' = worker /\ worker[c].pc # "raise"
      BY <1>t, <2>2, <3>1
    <3>2. ASSUME NEW pc \in {"read", "write", "close", "off", "off_error", "gone"},
                 worker' = Moved(worker, c, pc)
          PROVE  /\ worker' \in [Clients -> Threads]
                 /\ worker'[c].pc = pc /\ worker'[c].slot = worker[c].slot
                 /\ \A d \in Clients : d # c => worker'[d] = worker[d]
      <4>1. pc \in Pcs
        BY DEF Pcs
      <4> QED BY <1>t, <3>2, <4>1, ThreadMoves
    <3>3. CASE worker' # worker /\ worker[c].pc # "raise"
      <4>1. PICK pc \in {"read", "write", "close", "off", "off_error", "gone"} :
                 worker' = Moved(worker, c, pc)
        BY <2>2, <3>3, Zenon
      <4> QED BY <3>2, <3>3, <4>1
    <3>4. CASE worker[c].pc = "raise"
      <4>1. worker' = Moved(worker, c, "gone")
        BY <2>2, <3>4, Zenon
      <4> QED BY <3>2, <4>1
    <3> QED BY <3>1, <3>3, <3>4
  <2>4. rcv' \in [Clients -> Nat] /\ server' \in {"up", "sigpipe"}
    <3>1. CASE WorkerRead(c)
      <4>1. rcv' = rcv \/ \E left \in 0..(rcv[c] - 1) : rcv' = [rcv EXCEPT ![c] = left]
        BY <2>0, <3>1 DEF WorkerRead, Serving
      <4>2. \A left \in 0..(rcv[c] - 1) : left \in Nat
        BY DEF Types
      <4> QED BY <3>1, <4>1, <4>2 DEF WorkerRead, Types
    <3>2. CASE WorkerWrite(c) \/ WorkerRaise(c)
      BY <3>2 DEF WorkerWrite, WorkerRaise, Types, peerVars
    <3> QED BY <1>1, <3>1, <3>2
  <2>5. Types'
    BY <2>1, <2>3, <2>4 DEF Types, mainVars
  <2>6. Connections'
    BY <2>1, <2>2, <2>3 DEF Connections
  <2>7. \A d \in Clients : Active(d)' => Active(d) /\ worker'[d].slot = worker[d].slot
    BY <2>2, <2>3 DEF Active
  <2>8. \A d \in Clients : Serving(d)' => Serving(d) /\ worker'[d].slot = worker[d].slot
    BY <2>2, <2>3 DEF Serving
  <2>9. Filling'
    <3>1. \A d \in Clients : worker[d].pc = "none" => worker'[d] = worker[d]
      BY <2>2, <2>3
    <3> QED BY <2>1, <2>7, <3>1 DEF Filling, mainVars, Types
  <2>10. Held'
    BY <2>1, <2>7 DEF Held, mainVars
  <2>11. ServesOwnClient'
    BY <2>1, <2>8 DEF ServesOwnClient, cfd
  <2> QED BY <2>5, <2>6, <2>9, <2>10, <2>11
<1>2. CASE WorkerClose(c)
  <2>1. /\ worker[c].pc = "close" /\ worker' = Moved(worker, c, "off")
        /\ cfd(c) \in Fds /\ file[cfd(c)] = c
        /\ file' = [file EXCEPT ![cfd(c)] = NoClient]
        /\ UNCHANGED <<server, main, i, socks, queue, peer, toSend, rcv>>
    BY <1>2 DEF WorkerClose, Goto, Moved, ServesOwnClient, Serving, mainVars, peerVars
  <2> DEFINE f == cfd(c)
  <2>2. f \in Fds /\ file[f] = c /\ file' = [file EXCEPT ![f] = NoClient]
    BY <2>1
  <2> HIDE DEF f
  <2>3. /\ worker'[c].pc = "off" /\ worker'[c].slot = worker[c].slot
        /\ \A d \in Clients : d # c => worker'[d] = worker[d]
        /\ worker' \in [Clients -> Threads]
    <3>1. "off" \in Pcs
      BY DEF Pcs
    <3> QED BY <1>t, <2>1, <3>1, ThreadMoves
  <2>8. /\ file' \in [Fds -> Clients \union {NoClient}] /\ file'[f] = NoClient
        /\ \A fd \in Fds : fd # f => file'[fd] = file[fd]
    BY <2>2 DEF Types
  <2>4. Types'
    BY <2>1, <2>3, <2>8 DEF Types
  <2>5. Connections'
    BY <2>1, <2>2, <2>3, <2>8 DEF Connections
  <2>6. Filling' /\ Held'
    <3>1. \A d \in Clients : Active(d)' => Active(d) /\ worker'[d].slot = worker[d].slot
      BY <2>1, <2>3 DEF Active
    <3>2. main = "create" =>
            LET w == file[socks[i].cfd]
            IN  w \in Clients /\ w # c /\ socks[i].cfd # f /\ worker'[w] = worker[w]
      BY <2>1, <2>2, <2>3 DEF Filling, Types
    <3>3. Filling'
      BY <2>1, <2>8, <3>1, <3>2 DEF Filling
    <3>4. Held'
      BY <2>1, <3>1 DEF Held
    <3> QED BY <3>3, <3>4
  <2>7. ServesOwnClient'
    BY <2>1, <2>2, <2>3, <2>8 DEF ServesOwnClient, Serving, cfd
  <2> QED BY <2>4, <2>5, <2>6, <2>7
<1>3. CASE WorkerOff(c)
  <2> DEFINE s == worker[c].slot
  <2>1. /\ worker[c].pc \in {"off", "off_error"} /\ s \in Slots
        /\ \E pc \in {"raise", "gone"} : worker' = Moved(worker, c, pc)
        /\ socks' = Flagged(socks, s, 0)
        /\ UNCHANGED <<server, main, i, file, queue, peer, toSend, rcv>>
    <3>1. s \in Slots
      BY <1>t DEF Threads
    <3> QED BY <1>3, <3>1 DEF WorkerOff, Goto, Moved, Flagged, mainVars, peerVars
  <2> HIDE DEF s
  <2>2. /\ worker'[c].pc \in {"raise", "gone"} /\ worker'[c].slot = worker[c].slot
        /\ \A d \in Clients : d # c => worker'[d] = worker[d]
        /\ worker' \in [Clients -> Threads]
    <3>1. PICK pc \in {"raise", "gone"} : worker' = Moved(worker, c, pc)
      BY <2>1
    <3>2. pc \in Pcs
      BY DEF Pcs
    <3> QED BY <1>t, <3>1, <3>2, ThreadMoves
  <2>8. /\ socks'[s].on = 0 /\ \A r \in Slots : r # s => socks'[r] = socks[r]
        /\ \A r \in Slots : socks'[r].cfd = socks[r].cfd
        /\ socks' \in [Slots -> SockData]
    <3>1. 0 \in 0..1
      OBVIOUS
    <3> QED BY <1>t, <2>1, <3>1, FlagAssigned
  <2>9. \A d \in Clients : worker[d].slot \in Slots
    BY DEF Types, Threads
  <2>3. Types'
    BY <2>1, <2>2, <2>8 DEF Types
  <2>4. Connections'
    BY <2>1, <2>2 DEF Connections
  <2>5. Filling'
    <3>1. main \in {"accept", "again", "create", "set_on"} => i \in Slots
      BY DEF Types, Filling, Slots
    <3>2. \A d \in Clients : Active(d)' => Active(d) /\ worker'[d].slot = worker[d].slot
      BY <2>1, <2>2 DEF Active
    <3>3. \A d \in Clients : worker[d].pc = "none" => worker'[d] = worker[d]
      BY <2>1, <2>2
    <3>4. \A r \in Slots : socks[r].on = 0 => socks'[r].on = 0
      BY <2>8
    <3>5. main = "create" => file[socks[i].cfd] \in Clients
      BY DEF Filling, Types
    <3> QED BY <2>1, <2>8, <3>1, <3>2, <3>3, <3>4, <3>5 DEF Filling
  <2>6. Held'
    BY <2>1, <2>2, <2>8, <2>9 DEF Held, Active, s
  <2>7. ServesOwnClient'
    BY <2>1, <2>2, <2>8, <2>9 DEF ServesOwnClient, Serving, cfd
  <2> QED BY <2>3, <2>4, <2>5, <2>6, <2>7
<1> QED BY <1>1, <1>2, <1>3 DEF Worker

\* A client connects once, sends and closes; the server's side is untouched.
LEMMA ClientPreserves == ASSUME NEW c \in Clients, IndInv, Client(c) PROVE IndInv'
<1> USE SizesAssumption DEF IndInv
<1>1. UNCHANGED <<server, main, i, socks, worker, file>>
  BY DEF Client, Connect, ClientSend, ClientClose, mainVars
<1>2. Filling' /\ Held' /\ ServesOwnClient'
  BY <1>1 DEF Filling, Held, ServesOwnClient, Active, Serving, cfd
<1>3. CASE Connect(c)
  <2>1. /\ peer[c] = "idle" /\ peer' = [peer EXCEPT ![c] = "up"]
        /\ queue' = Append(queue, c) /\ UNCHANGED <<toSend, rcv>>
    BY <1>3 DEF Connect
  <2>2. /\ queue' \in Seq(Clients) /\ Distinct(queue')
        /\ \A d : InQ(d, queue') => InQ(d, queue) \/ d = c
    BY <2>1, QueueAppend DEF Types, Connections
  <2>3. /\ peer'[c] = "up" /\ \A d \in Clients : d # c => peer'[d] = peer[d]
    BY <2>1 DEF Types
  <2>4. Types'
    BY <1>1, <2>1, <2>2 DEF Types
  <2>5. Connections'
    <3>1. worker[c].pc = "none"
      BY <2>1 DEF Connections
    <3>2. \A fd \in Fds : file[fd] # c
      BY <2>1, NoClientAssumption DEF Connections
    <3>3. \A d \in Clients : peer[d] # "idle" => peer'[d] # "idle"
      BY <2>3
    <3> QED BY <1>1, <2>2, <2>3, <3>1, <3>2, <3>3 DEF Connections, Types
  <2> QED BY <1>2, <2>4, <2>5
<1>4. CASE ClientSend(c)
  BY <1>1, <1>2, <1>4 DEF ClientSend, Types, Connections
<1>5. CASE ClientClose(c)
  <2>1. /\ peer[c] # "idle" /\ UNCHANGED <<queue, toSend, rcv>>
        /\ \E e \in {"fin", "rst"} : peer' = [peer EXCEPT ![c] = e]
    BY <1>5 DEF ClientClose
  <2>2. /\ peer' \in [Clients -> {"idle", "up", "fin", "rst"}]
        /\ \A d \in Clients : peer'[d] = "idle" => peer[d] = "idle"
    BY <2>1 DEF Types
  <2>3. Types'
    BY <1>1, <2>1, <2>2 DEF Types
  <2>4. Connections'
    BY <1>1, <2>1, <2>2 DEF Connections, Types
  <2> QED BY <1>2, <2>3, <2>4
<1> QED BY <1>3, <1>4, <1>5 DEF Client

-----------------------------------------------------------------------------
\* Every step of the server and of its clients keeps the invariant.
LEMMA IndInvStep == IndInv /\ [Next]_vars => IndInv'
<1> SUFFICES ASSUME IndInv, [Next]_vars PROVE IndInv'
  OBVIOUS
<1>1. CASE Main
  <2>1. CASE Boot \/ Scan
    BY <2>1, ScanPreserves
  <2>2. CASE Accept
    BY <2>2, AcceptPreserves DEF Accept
  <2>3. CASE AcceptAgain
    BY <2>3, AcceptPreserves DEF AcceptAgain
  <2>4. CASE Create
    BY <2>4, CreatePreserves
  <2>5. CASE SetOn
    BY <2>5, SetOnPreserves
  <2> QED BY <1>1, <2>1, <2>2, <2>3, <2>4, <2>5 DEF Main
<1>2. CASE Wake
  BY <1>2, ScanPreserves
<1>3. CASE \E c \in Clients : Worker(c) \/ Client(c)
  BY <1>3, WorkerPreserves, ClientPreserves
<1>4. CASE UNCHANGED vars
  <2>1. UNCHANGED <<server, main, i, socks, worker, file, queue, peer, toSend, rcv>>
    BY <1>4 DEF vars, mainVars, peerVars
  <2> QED BY <2>1 DEF IndInv, Types, Connections, Filling, Held, ServesOwnClient,
                      Serving, cfd, Active
<1> QED BY <1>1, <1>2, <1>3, <1>4 DEF Next, Idle, Terminated

\* The inductive invariant holds in every reachable state.
THEOREM IndInvAlways == Spec => []IndInv
  BY IndInvInit, IndInvStep, PTL DEF Spec

(***************************************************************************)
(* Although main() and the threads share socks without a lock, a serving   *)
(* thread's slot holds its own open connection and no other serving thread *)
(* has that slot (worker() of multi_thread_server.c).                      *)
(***************************************************************************)
THEOREM OwnConnection == Spec => []ServesOwnClient
<1>1. IndInv => ServesOwnClient
  BY DEF IndInv
<1> QED BY <1>1, IndInvAlways, PTL

-----------------------------------------------------------------------------
(* The threaded server implements RequestReply.                             *)

Running == server \in {"boot", "up"}

\* An open descriptor of c that main() is not about to start a thread for.
Lost(c) == \E fd \in Fds : file[fd] = c /\ ~(main = "create" /\ socks[i].cfd = fd)

\* A step that keeps every phase is a stutter of the abstract server.
LEMMA Stutters ==
    ASSUME Running' <=> Running, \A c \in Clients : Phase(c)' = Phase(c)
    PROVE  UNCHANGED Abstract!rrVars
  BY DEF Abstract!rrVars, Running

\* A step that moves one client along a legal edge is a step of the server.
LEMMA Serves ==
    ASSUME NEW c \in Clients, Running, Running',
           <<Phase(c), Phase(c)'>> \in Abstract!Moves,
           \A d \in Clients : d # c => Phase(d)' = Phase(d)
    PROVE  Abstract!Next
<1>1. Abstract!Serve(c)
  BY DEF Abstract!Serve, Running
<1> QED BY <1>1 DEF Abstract!Next

\* The end of the process closes every connection.
LEMMA Halts == ASSUME Running, ~Running' PROVE Abstract!Next
<1>1. \A c \in Clients : Phase(c)' = "closed"
  BY DEF Phase, Running
<1>2. Abstract!Halt
  BY <1>1 DEF Abstract!Halt, Running
<1> QED BY <1>2 DEF Abstract!Next

\* A client whose thread and connection a step leaves alone keeps its phase.
LEMMA SamePhase ==
    ASSUME NEW c \in Clients, Running' <=> Running, worker'[c].pc = worker[c].pc,
           worker[c].pc = "none" => (Lost(c)' <=> Lost(c))
    PROVE  Phase(c)' = Phase(c)
  BY DEF Phase, Running, Lost

\* The steps of main().
LEMMA MainImplements ==
    ASSUME IndInv, Main \/ Wake
    PROVE  Abstract!Next \/ UNCHANGED Abstract!rrVars
<1> USE SizesAssumption, NoClientAssumption DEF IndInv
<1>1. CASE Boot
  <2>1. UNCHANGED <<main, i, socks, worker, file>> /\ Running
    BY <1>1 DEF Boot, mainVars, Running
  <2>2. CASE Running'
    <3>1. \A c \in Clients : Phase(c)' = Phase(c)
      BY <2>1, <2>2, SamePhase DEF Lost
    <3> QED BY <2>1, <2>2, <3>1, Stutters
  <2>3. CASE ~Running'
    BY <2>1, <2>3, Halts
  <2> QED BY <2>2, <2>3
<1>2. CASE Scan \/ SetOn \/ Wake
  <2>1. /\ UNCHANGED <<worker, file>> /\ main # "create" /\ main' # "create" /\ Running
    BY <1>2 DEF Scan, SetOn, Wake, Running
  <2>2. CASE Running'
    <3>1. \A c \in Clients : Phase(c)' = Phase(c)
      BY <2>1, <2>2, SamePhase DEF Lost
    <3> QED BY <2>1, <2>2, <3>1, Stutters
  <2>3. CASE ~Running'
    BY <2>1, <2>3, Halts
  <2> QED BY <2>2, <2>3
<1>3. CASE Accept \/ AcceptAgain
  <2>0. /\ UNCHANGED <<server, i, worker>> /\ Running /\ main # "create" /\ i \in Slots
    BY <1>3 DEF Accept, AcceptAgain, AcceptInto, Running, Types, Filling, Slots
  <2>1. CASE FreeFds = {}
    <3>1. UNCHANGED file /\ main' # "create"
      BY <1>3, <2>1 DEF Accept, AcceptAgain, AcceptInto
    <3>2. \A c \in Clients : Phase(c)' = Phase(c)
      BY <2>0, <3>1, SamePhase DEF Lost, Running
    <3> QED BY <2>0, <3>2, Stutters DEF Running
  <2>2. CASE FreeFds # {}
    <3> DEFINE m == Min(FreeFds)
    <3>0. queue # <<>>
      BY <1>3, <2>2 DEF Accept, AcceptAgain, AcceptInto
    <3>a. PICK w \in Clients : w = Head(queue)
      BY <3>0, QueueHead DEF Types, Connections
    <3>1. /\ queue # <<>> /\ socks' = WithCfd(socks, i, m)
          /\ file' = [file EXCEPT ![m] = w]
          /\ main' = IF main = "accept" THEN "create" ELSE "accept"
      BY <1>3, <2>2, <3>a DEF Accept, AcceptAgain, AcceptInto, WithCfd
    <3>2. m \in Fds /\ file[m] = NoClient
      <4>1. FreeFds \in SUBSET Nat
        BY DEF FreeFds, Fds
      <4> QED BY <2>2, <4>1, LeastExists DEF FreeFds
    <3>3. worker[w].pc = "none" /\ \A fd \in Fds : file[fd] # w
      BY <3>a, <3>1, QueueHead DEF Types, Connections
    <3> HIDE DEF m
    <3>4. socks'[i].cfd = m
      <4>1. m \in -1..FdLimit /\ socks \in [Slots -> SockData]
        BY <3>2 DEF Fds, Types
      <4> QED BY <2>0, <3>1, <4>1, CfdAssigned
    <3>5. file'[m] = w /\ \A fd \in Fds : fd # m => file'[fd] = file[fd]
      BY <3>1, <3>2 DEF Types
    <3>6. \A c \in Clients : c # w => (Lost(c)' <=> Lost(c))
      BY <2>0, <3>2, <3>4, <3>5 DEF Lost
    <3>7. \A c \in Clients : c # w => Phase(c)' = Phase(c)
      BY <2>0, <3>6, SamePhase DEF Running
    <3>8. ~Lost(w) /\ (Lost(w)' <=> main # "accept")
      BY <2>0, <3>1, <3>2, <3>3, <3>4, <3>5 DEF Lost
    <3>9. CASE main = "accept"
      <4>1. Phase(w)' = Phase(w)
        BY <2>0, <3>3, <3>8, <3>9, SamePhase DEF Running
      <4> QED BY <2>0, <3>7, <4>1, Stutters DEF Running
    <3>10. CASE main # "accept"
      <4>1. Phase(w) = "none" /\ Phase(w)' = "neglected"
        BY <2>0, <3>3, <3>8, <3>10 DEF Running, Phase, Lost
      <4>2. <<Phase(w), Phase(w)'>> \in Abstract!Moves
        BY <4>1 DEF Abstract!Moves, Abstract!Neglect
      <4> QED BY <2>0, <3>3, <3>7, <4>2, Serves DEF Running
    <3> QED BY <3>9, <3>10
  <2> QED BY <2>1, <2>2
<1>4. CASE Create
  <2>0. PICK w \in Clients : w = file[socks[i].cfd]
    BY <1>4 DEF Create, Filling, Types
  <2>1. /\ main = "create" /\ socks[i].cfd \in Fds /\ Running
        /\ worker[w].pc = "none" /\ UNCHANGED <<i, socks, file>>
    BY <1>4, <2>0 DEF Create, Filling, Running
  <2>2. CASE server' = "exit"
    BY <2>1, <2>2, Halts DEF Running
  <2>3. CASE /\ worker' = [worker EXCEPT ![w] = [pc |-> "read", slot |-> i]]
             /\ main' = "set_on" /\ UNCHANGED server
    <3>1. worker'[w].pc = "read" /\ \A c \in Clients : c # w => worker'[c] = worker[c]
      BY <2>1, <2>3 DEF Types
    <3>2. ~Lost(w) /\ \A c \in Clients : c # w => (Lost(c)' <=> Lost(c))
      BY <2>0, <2>1, <2>3 DEF Lost, Connections
    <3>3. \A c \in Clients : c # w => Phase(c)' = Phase(c)
      BY <2>3, <3>1, <3>2, SamePhase DEF Running
    <3>4. Phase(w) = "none" /\ Phase(w)' = "reading"
      BY <2>1, <2>3, <3>1, <3>2 DEF Phase, Lost, Running
    <3>5. <<Phase(w), Phase(w)'>> \in Abstract!Moves
      BY <3>4 DEF Abstract!Moves, Abstract!Open
    <3> QED BY <2>1, <2>3, <3>3, <3>5, Serves DEF Running
  <2> QED BY <1>4, <2>0, <2>2, <2>3 DEF Create
<1> QED BY <1>1, <1>2, <1>3, <1>4 DEF Main

\* The steps of worker() and of the clients.
LEMMA WorkerImplements ==
    ASSUME IndInv, NEW c \in Clients, Worker(c) \/ Client(c)
    PROVE  Abstract!Next \/ UNCHANGED Abstract!rrVars
<1> USE SizesAssumption, NoClientAssumption DEF IndInv
<1>t. worker \in [Clients -> Threads]
  BY DEF Types
<1>0. Running /\ UNCHANGED <<main, i>> /\ \A s \in Slots : socks'[s].cfd = socks[s].cfd
  <2>1. Running /\ UNCHANGED <<main, i>>
    BY DEF Worker, Client, WorkerRead, WorkerWrite, WorkerClose, WorkerOff, WorkerRaise,
           Connect, ClientSend, ClientClose, mainVars, Running
  <2>2. CASE WorkerOff(c)
    <3>1. /\ socks' = Flagged(socks, worker[c].slot, 0) /\ worker[c].slot \in Slots
          /\ 0 \in 0..1 /\ socks \in [Slots -> SockData]
      BY <1>t, <2>2 DEF WorkerOff, Flagged, Threads, Types
    <3> QED BY <2>1, <3>1, FlagAssigned
  <2>3. CASE ~WorkerOff(c)
    BY <2>1, <2>3 DEF Worker, Client, WorkerRead, WorkerWrite, WorkerClose, WorkerRaise,
           Connect, ClientSend, ClientClose
  <2> QED BY <2>2, <2>3
<1>1. \A d \in Clients : worker[d].pc = "none" => (Lost(d)' <=> Lost(d))
  <2>1. main = "create" => socks'[i].cfd = socks[i].cfd
    BY <1>0 DEF Filling, Types, Slots
  <2>2. CASE WorkerClose(c)
    <3>1. /\ cfd(c) \in Fds /\ file[cfd(c)] = c /\ worker[c].pc # "none"
          /\ file' = [file EXCEPT ![cfd(c)] = NoClient]
      BY <2>2 DEF WorkerClose, ServesOwnClient, Serving
    <3> DEFINE f == cfd(c)
    <3>2. file[f] = c /\ file'[f] = NoClient /\ \A fd \in Fds : fd # f => file'[fd] = file[fd]
      BY <3>1 DEF Types
    <3> HIDE DEF f
    <3> QED BY <1>0, <2>1, <3>1, <3>2 DEF Lost
  <2>3. CASE UNCHANGED file
    BY <1>0, <2>1, <2>3 DEF Lost
  <2> QED BY <2>2, <2>3 DEF Worker, Client, WorkerRead, WorkerWrite, WorkerOff,
             WorkerRaise, Connect, ClientSend, ClientClose
<1>2. CASE UNCHANGED <<server, worker>>
  <2>1. \A d \in Clients : Phase(d)' = Phase(d)
    BY <1>0, <1>1, <1>2, SamePhase DEF Running
  <2> QED BY <1>0, <1>2, <2>1, Stutters DEF Running
<1>3. CASE server' = "sigpipe"
  BY <1>0, <1>3, Halts DEF Running
<1>4. ASSUME NEW p \in Pcs, worker' = Moved(worker, c, p), UNCHANGED server,
             \/ worker[c].pc = "read" /\ p \in {"write", "off", "close", "off_error"}
             \/ worker[c].pc = "write" /\ p = "read"
             \/ /\ worker[c].pc \in {"close", "off", "off_error", "raise"}
                /\ p \in {"off", "raise", "gone"}
      PROVE  Abstract!Next \/ UNCHANGED Abstract!rrVars
  <2>1. worker'[c].pc = p /\ \A d \in Clients : d # c => worker'[d] = worker[d]
    BY <1>t, <1>4, ThreadMoves
  <2>2. \A d \in Clients : d # c => Phase(d)' = Phase(d)
    BY <1>1, <1>4, <2>1, SamePhase DEF Running
  <2>3. CASE worker[c].pc \in {"read", "write"}
    <3>1. <<Phase(c), Phase(c)'>> \in
             {<<"reading", "replying">>, <<"reading", "closed">>, <<"replying", "reading">>}
      BY <1>0, <1>4, <2>1, <2>3 DEF Phase, Running
    <3>2. <<Phase(c), Phase(c)'>> \in Abstract!Moves
      BY <3>1 DEF Abstract!Moves, Abstract!Receive, Abstract!Reply, Abstract!Close
    <3> QED BY <1>0, <1>4, <2>2, <3>2, Serves DEF Running
  <2>4. CASE worker[c].pc \in {"close", "off", "off_error", "raise"}
    <3>1. Phase(c) = "closed" /\ Phase(c)' = "closed"
      BY <1>0, <1>4, <2>1, <2>4 DEF Phase, Running
    <3> QED BY <1>4, <2>2, <3>1, Stutters DEF Running
  <2> QED BY <1>4, <2>3, <2>4
<1>5. CASE Client(c)
  BY <1>2, <1>5 DEF Client, Connect, ClientSend, ClientClose
<1>6. CASE WorkerRead(c)
  <2>1. \E p \in {"write", "off", "close", "off_error"} : worker' = Moved(worker, c, p)
    BY <1>6 DEF WorkerRead, Goto, Moved
  <2>2. {"write", "off", "close", "off_error"} \subseteq Pcs
    BY DEF Pcs
  <2>3. worker[c].pc = "read" /\ UNCHANGED server
    BY <1>6 DEF WorkerRead
  <2> QED BY <1>4, <2>1, <2>2, <2>3
<1>7. CASE WorkerWrite(c)
  <2>1. \/ worker' = Moved(worker, c, "read") /\ UNCHANGED server
        \/ server' = "sigpipe"
    BY <1>7 DEF WorkerWrite, Goto, Moved
  <2>2. worker[c].pc = "write" /\ "read" \in Pcs
    BY <1>7 DEF WorkerWrite, Pcs
  <2> QED BY <1>3, <1>4, <2>1, <2>2
<1>8. CASE WorkerClose(c) \/ WorkerOff(c) \/ WorkerRaise(c)
  <2>1. \E p \in {"off", "raise", "gone"} : worker' = Moved(worker, c, p)
    BY <1>8 DEF WorkerClose, WorkerOff, WorkerRaise, Goto, Moved
  <2>2. {"off", "raise", "gone"} \subseteq Pcs
    BY DEF Pcs
  <2>3. worker[c].pc \in {"close", "off", "off_error", "raise"} /\ UNCHANGED server
    BY <1>8 DEF WorkerClose, WorkerOff, WorkerRaise
  <2> QED BY <1>4, <2>1, <2>2, <2>3
<1> QED BY <1>5, <1>6, <1>7, <1>8 DEF Worker

(***************************************************************************)
(* multi_thread_server.c implements the request-reply server: a thread     *)
(* answers each read() with one write(), and a connection that the         *)
(* accept() retry loop dropped, or that was never given a thread, is       *)
(* neglected for ever.                                                     *)
(***************************************************************************)
THEOREM RequestReplyRefinement == Spec => ImplementsRequestReply
<1>1. Init => Abstract!Init
  <2> SUFFICES ASSUME Init PROVE Abstract!Init
    OBVIOUS
  <2>1. \A c \in Clients : Phase(c) = "none"
    BY NoClientAssumption DEF Init, Phase, Fds
  <2> QED BY <2>1 DEF Init, Abstract!Init
<1>2. IndInv /\ [Next]_vars => [Abstract!Next]_(Abstract!rrVars)
  <2> SUFFICES ASSUME IndInv, [Next]_vars PROVE Abstract!Next \/ UNCHANGED Abstract!rrVars
    OBVIOUS
  <2>1. CASE UNCHANGED vars
    <3>1. UNCHANGED <<server, main, i, socks, worker, file>>
      BY <2>1 DEF vars, mainVars
    <3>2. \A c \in Clients : Phase(c)' = Phase(c)
      BY <3>1 DEF Phase
    <3> QED BY <3>1, <3>2, Stutters DEF Running
  <2>2. CASE Main \/ Wake
    BY <2>2, MainImplements
  <2>3. CASE \E c \in Clients : Worker(c) \/ Client(c)
    BY <2>3, WorkerImplements
  <2> QED BY <2>1, <2>2, <2>3 DEF Next, Idle, Terminated
<1> QED
  BY <1>1, <1>2, IndInvAlways, PTL DEF Spec, ImplementsRequestReply, Abstract!Spec
=============================================================================
