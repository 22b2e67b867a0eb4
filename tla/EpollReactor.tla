---------------------------- MODULE EpollReactor ----------------------------
(***************************************************************************)
(* myEpollReactor.c: a single-threaded TCP server.  main() loops on        *)
(* epoll_wait() and calls the callback of each reported slot of Events.    *)
(* A connection owns one slot and alternates between recvData (interest    *)
(* EPOLLIN) and sendData (interest EPOLLOUT).  The kernel side (sockets,   *)
(* descriptors, the interest list of the epoll instance) is modelled as    *)
(* far as the calls made by the code observe it.                           *)
(***************************************************************************)
EXTENDS Integers, Sequences, FiniteSets, FiniteSetsExt, Functions

CONSTANTS
    Clients,            \* each connects at most once
    NoClient,           \* a descriptor that is not open
    NoReg,              \* a descriptor the epoll instance does not watch
    NoReport,           \* no report is being handled
    MAXEVENT,           \* number of connection slots; 1024 in the code
    FdLimit,            \* the largest descriptor the process may have
    MaxSend,            \* segments a client sends (bound)
    SndBuf              \* replies that fit in a socket's send buffer

ASSUME SizesAssumption ==
    /\ MAXEVENT \in Nat /\ FdLimit \in Nat /\ FdLimit >= 1
    /\ MaxSend \in Nat /\ SndBuf \in Nat \ {0}
ASSUME NoClientAssumption == NoClient \notin Clients
ASSUME NoRegAssumption ==
    \A s \in 0..MAXEVENT, m \in {"IN", "OUT"} : NoReg # [ptr |-> s, mask |-> m]

VARIABLES
    server,             \* "boot", "up", or how the process ended
    bound,              \* did bind() get the port?
    Events,             \* the slot array; slot MAXEVENT is the listener's
    tree,               \* the interest list: per descriptor [ptr, mask]
    batch,              \* reports of the last epoll_wait() not yet looked at
    cur,                \* the report the loop body is at
    step,               \* "next", "in" or "out": where the loop body is
    file,               \* the client behind each open connection descriptor
    queue,              \* established connections waiting for accept()
    peer,               \* what each client's end has done: idle, up, fin, rst
    toSend,             \* segments each client may still send
    rcv,                \* segments received from the client and not read
    snd                 \* replies the client has not read yet

loopVars == <<batch, cur, step>>
peerVars == <<peer, toSend, rcv, snd>>
vars == <<server, bound, Events, tree, loopVars, file, queue, peerVars>>

LFD == 1                            \* the listening descriptor
Fds == 2..FdLimit                   \* descriptors accept() can return
Slots == 0..MAXEVENT                \* indices of Events
ConnSlots == Slots \ {MAXEVENT}

-----------------------------------------------------------------------------
(* Slot bookkeeping and epoll_ctl().  A configuration holds Events, the     *)
(* interest list and whether errExit() has ended the process.               *)

Config == [ev |-> Events, tree |-> tree, dead |-> FALSE]

\* setevent(): it does not touch call_back.
setevent(cf, s, fd, events) ==
    [cf EXCEPT !.ev[s] = [@ EXCEPT !.fd = fd, !.events = events, !.status = 0]]

\* An eventadd() that does not record that the slot is in the tree.
eventaddForgetsStatus(cf, s) ==
    IF cf.dead THEN cf
    ELSE [cf EXCEPT !.tree[cf.ev[s].fd] = [ptr |-> s, mask |-> cf.ev[s].events]]

\* EPOLL_CTL_MOD needs a watched descriptor, EPOLL_CTL_ADD an unwatched one;
\* any other use is an error and errExit() ends the process.
eventadd(cf, s) ==
    LET e   == cf.ev[s]
        reg == [ptr |-> s, mask |-> e.events]
        new == [cf EXCEPT !.ev[s].status = 1]
    IN  IF cf.dead THEN cf
        ELSE IF (e.status = 1) # (cf.tree[e.fd] # NoReg)
             THEN [new EXCEPT !.dead = TRUE]
             ELSE [new EXCEPT !.tree[e.fd] = reg]

\* An eventdel() that leaves status alone.
eventdelKeepsStatus(cf, s) ==
    LET e == cf.ev[s]
    IN  IF cf.dead \/ cf.tree[e.fd] = NoReg THEN [cf EXCEPT !.dead = TRUE]
        ELSE [cf EXCEPT !.tree[e.fd] = NoReg]

\* eventdel() on a slot that is already out issues EPOLL_CTL_MOD without an
\* event structure, which always fails.
eventdel(cf, s) ==
    LET e == cf.ev[s]
    IN  IF cf.dead THEN cf
        ELSE IF e.status = 0 THEN [cf EXCEPT !.dead = TRUE]
        ELSE IF cf.tree[e.fd] = NoReg
             THEN [cf EXCEPT !.ev[s].status = 0, !.dead = TRUE]
             ELSE [cf EXCEPT !.ev[s].status = 0, !.tree[e.fd] = NoReg]

setcall(cf, s, events, call_back) ==
    IF cf.dead THEN cf
    ELSE [cf EXCEPT !.ev[s] = [@ EXCEPT !.events = events, !.call_back = call_back]]

\* The process goes on with configuration cf, or errExit() has ended it.
Commit(cf) ==
    /\ Events' = cf.ev
    /\ tree' = cf.tree
    /\ server' = IF cf.dead THEN "exit_ctl" ELSE server

-----------------------------------------------------------------------------
(* Readiness of a descriptor as epoll_wait() and the blocking calls see it. *)

Readable(fd) ==
    IF fd = LFD THEN queue # <<>>
    ELSE file[fd] # NoClient /\ (rcv[file[fd]] > 0 \/ peer[file[fd]] # "up")

Writable(fd) ==
    fd # LFD /\ file[fd] # NoClient
             /\ (snd[file[fd]] < SndBuf \/ peer[file[fd]] # "up")

Ready(fd) == {m \in {"IN", "OUT"} :
                \/ m = "IN" /\ Readable(fd)
                \/ m = "OUT" /\ Writable(fd)}

\* EPOLLERR and EPOLLHUP may be reported as well; the code never tests them.
Reports == {[ptr |-> tree[fd].ptr, events |-> Ready(fd) \intersect {tree[fd].mask}] :
              fd \in {f \in Fds \union {LFD} :
                        tree[f] # NoReg /\ tree[f].mask \in Ready(f)}}

-----------------------------------------------------------------------------
(* The callbacks.  A recv(), send() or accept() that is not ready blocks    *)
(* the only thread: the action is then not enabled.                         *)

\* A recvData that never puts the slot back into the tree.
recvDataForgetsAdd(s) ==
    LET fd == Events[s].fd
        c  == file[fd]
    IN  /\ Readable(fd)
        /\ \/ /\ rcv[c] > 0
              /\ \E left \in 0..(rcv[c] - 1) : rcv' = [rcv EXCEPT ![c] = left]
              /\ Commit(setcall(eventdel(Config, s), s, "OUT", "sendData"))
              /\ UNCHANGED file
           \/ /\ rcv[c] = 0
              /\ Commit(eventdel(Config, s))
              /\ file' = [file EXCEPT ![fd] = IF server' = "up" THEN NoClient ELSE @]
              /\ UNCHANGED rcv
        /\ UNCHANGED <<queue, peer, toSend, snd>>

recvData(s) ==
    LET fd == Events[s].fd
        c  == file[fd]
    IN  /\ Readable(fd)
        /\ \/ /\ rcv[c] > 0                        \* len > 0: at most BUFSZ bytes
              /\ \E left \in 0..(rcv[c] - 1) : rcv' = [rcv EXCEPT ![c] = left]
              /\ Commit(eventadd(setcall(eventdel(Config, s), s, "OUT", "sendData"), s))
              /\ UNCHANGED file
           \/ /\ rcv[c] = 0                        \* end of file or reset
              /\ Commit(eventdel(Config, s))
              /\ file' = [file EXCEPT ![fd] = IF server' = "up" THEN NoClient ELSE @]
              /\ UNCHANGED rcv
        /\ UNCHANGED <<queue, peer, toSend, snd>>

\* The error branch deletes the slot a second time before it closes the
\* descriptor; a SIGPIPE instead of an error return ends the process as well.
sendData(s) ==
    LET fd == Events[s].fd
        c  == file[fd]
    IN  /\ Writable(fd)
        /\ \/ /\ peer[c] # "rst"                   \* len > 0
              /\ snd' = [snd EXCEPT ![c] = IF peer[c] = "up" THEN @ + 1 ELSE @]
              /\ Commit(eventadd(setcall(eventdel(Config, s), s, "IN", "recvData"), s))
              /\ UNCHANGED file
           \/ /\ peer[c] = "rst"                   \* sending error
              /\ Commit(eventdel(eventdel(Config, s), s))
              /\ file' = [file EXCEPT ![fd] = IF server' = "up" THEN NoClient ELSE @]
              /\ UNCHANGED snd
        /\ UNCHANGED <<queue, peer, toSend, rcv>>

\* A search for a slot that does not look at status.
FreeSlotsAnyStatus == ConnSlots

\* A search that stops before the last slot.
FreeSlotsOneShort == {s \in ConnSlots \ {MAXEVENT - 1} : Events[s].status = 0}

FreeSlots == {s \in ConnSlots : Events[s].status = 0}
FreeFds == {fd \in Fds : file[fd] = NoClient}

\* The connection is forgotten, its descriptor open, when no slot is free.
acceptconnection ==
    /\ Readable(LFD)
    /\ \/ /\ FreeFds = {}                          \* accept() fails: errExit()
          /\ server' = "exit_accept"
          /\ UNCHANGED <<Events, tree, file, queue>>
       \/ /\ FreeFds # {}
          /\ LET fd == Min(FreeFds)
             IN  /\ file' = [file EXCEPT ![fd] = Head(queue)]
                 /\ queue' = Tail(queue)
                 /\ IF FreeSlots = {}
                    THEN UNCHANGED <<server, Events, tree>>
                    ELSE LET s == Min(FreeSlots)
                         IN  Commit(setcall(eventadd(setevent(Config, s, fd, "IN"), s),
                                            s, "IN", "recvData"))
    /\ UNCHANGED peerVars

Callback(s) ==
    \/ Events[s].call_back = "recvData" /\ recvData(s)
    \/ Events[s].call_back = "sendData" /\ sendData(s)
    \/ Events[s].call_back = "acceptconnection" /\ acceptconnection

-----------------------------------------------------------------------------
(* main().                                                                  *)

Init ==
    /\ server = "boot"
    /\ bound = FALSE
    /\ Events = [s \in Slots |->
          IF s = MAXEVENT
          THEN [fd |-> LFD, events |-> "IN", status |-> 1, call_back |-> "acceptconnection"]
          ELSE [fd |-> 0, events |-> "none", status |-> 0, call_back |-> "NULL"]]
    /\ tree = [fd \in Fds \union {LFD} |-> NoReg]
    /\ batch = {} /\ cur = NoReport /\ step = "next"
    /\ file = [fd \in Fds |-> NoClient]
    /\ queue = <<>>
    /\ peer = [c \in Clients |-> "idle"]
    /\ toSend = [c \in Clients |-> MaxSend]
    /\ rcv = [c \in Clients |-> 0]
    /\ snd = [c \in Clients |-> 0]

\* socket() and epoll_ctl() are checked, bind() and listen() are not.
Boot ==
    /\ server = "boot"
    /\ \/ server' = "exit_boot" /\ UNCHANGED <<bound, tree>>
       \/ /\ server' = "up"
          /\ bound' \in BOOLEAN
          /\ tree' = [tree EXCEPT ![LFD] = [ptr |-> MAXEVENT, mask |-> "IN"]]
    /\ UNCHANGED <<Events, loopVars, file, queue, peerVars>>

\* A failing epoll_wait(), interrupted by a stop signal say, ends the process.
EpollWait ==
    /\ server = "up"
    /\ step = "next" /\ batch = {}
    /\ \/ Reports # {} /\ batch' = Reports /\ UNCHANGED server
       \/ server' = "exit_wait" /\ UNCHANGED batch
    /\ UNCHANGED <<bound, Events, tree, cur, step, file, queue, peerVars>>

\* The kernel chooses the order of the reports in EpollEvents.
NextReport ==
    /\ server = "up"
    /\ step = "next"
    /\ \E r \in batch : cur' = r /\ batch' = batch \ {r}
    /\ step' = "in"
    /\ UNCHANGED <<server, bound, Events, tree, file, queue, peerVars>>

Asked(m) == Events[cur.ptr].events = m /\ m \in cur.events

TestIn ==
    /\ server = "up"
    /\ step = "in"
    /\ IF Asked("IN") THEN Callback(cur.ptr)
                      ELSE UNCHANGED <<server, Events, tree, file, queue, peerVars>>
    /\ step' = "out"
    /\ UNCHANGED <<bound, batch, cur>>

TestOut ==
    /\ server = "up"
    /\ step = "out"
    /\ IF Asked("OUT") THEN Callback(cur.ptr)
                       ELSE UNCHANGED <<server, Events, tree, file, queue, peerVars>>
    /\ step' = "next"
    /\ cur' = NoReport
    /\ UNCHANGED <<bound, batch>>

\* epoll_wait() blocks: nothing is ready.
Idle ==
    /\ server = "up"
    /\ step = "next" /\ batch = {}
    /\ Reports = {}
    /\ UNCHANGED vars

Loop == EpollWait \/ NextReport \/ TestIn \/ TestOut

-----------------------------------------------------------------------------
(* The clients and the network.                                             *)

Connect(c) ==
    /\ server = "up" /\ bound
    /\ peer[c] = "idle"
    /\ peer' = [peer EXCEPT ![c] = "up"]
    /\ queue' = Append(queue, c)
    /\ UNCHANGED <<server, bound, Events, tree, loopVars, file, toSend, rcv, snd>>

ClientSend(c) ==
    /\ server = "up"
    /\ peer[c] = "up" /\ toSend[c] > 0
    /\ toSend' = [toSend EXCEPT ![c] = @ - 1]
    /\ rcv' = [rcv EXCEPT ![c] = @ + 1]
    /\ UNCHANGED <<server, bound, Events, tree, loopVars, file, queue, peer, snd>>

ClientRead(c) ==
    /\ server = "up"
    /\ peer[c] = "up" /\ snd[c] > 0
    /\ snd' = [snd EXCEPT ![c] = @ - 1]
    /\ UNCHANGED <<server, bound, Events, tree, loopVars, file, queue, peer, toSend, rcv>>

\* Closing with unread replies resets the connection, as does a reply that
\* reaches a closed end, or a crash of the client.
ClientClose(c) ==
    /\ server = "up"
    /\ \/ peer[c] = "up" /\ snd[c] = 0 /\ peer' = [peer EXCEPT ![c] = "fin"]
       \/ peer[c] \in {"up", "fin"} /\ peer' = [peer EXCEPT ![c] = "rst"]
    /\ UNCHANGED <<server, bound, Events, tree, loopVars, file, queue, toSend, rcv, snd>>

Client(c) == Connect(c) \/ ClientSend(c) \/ ClientRead(c) \/ ClientClose(c)

Terminated ==
    /\ server \notin {"boot", "up"}
    /\ UNCHANGED vars

Next == Boot \/ Loop \/ Idle \/ (\E c \in Clients : Client(c)) \/ Terminated

Spec == Init /\ [][Next]_vars

(***************************************************************************)
(* The server process runs whenever it can, and a connected client reads   *)
(* its replies.  Nothing else is expected of a client, and nothing makes   *)
(* epoll_wait() fail: with no report to give it waits.                     *)
(***************************************************************************)
FairSpec == Spec /\ WF_vars(Boot) /\ WF_vars(Loop /\ server' # "exit_wait")
                 /\ \A c \in Clients : WF_vars(ClientRead(c))

-----------------------------------------------------------------------------
Watched(s) == Events[s].status = 1

\* What the server does with client c, from its own data structures.
Phase(c) ==
    IF server \notin {"boot", "up"} THEN "closed"
    ELSE IF peer[c] = "idle" \/ c \in Range(queue) THEN "none"
    ELSE IF c \notin Range(file) THEN "closed"
    ELSE IF \E s \in ConnSlots : Watched(s) /\ file[Events[s].fd] = c
                                 /\ Events[s].call_back = "sendData" THEN "replying"
    ELSE IF \E s \in ConnSlots : Watched(s) /\ file[Events[s].fd] = c THEN "reading"
    ELSE "neglected"

Masks == {"IN", "OUT"}
Report == [ptr : Slots, events : SUBSET Masks]

\* Every variable has its type, and no socket buffer or queue overflows.
TypeOK ==
    /\ server \in {"boot", "up", "exit_boot", "exit_ctl", "exit_accept", "exit_wait"}
    /\ bound \in BOOLEAN
    /\ Events \in [Slots -> [fd : 0..FdLimit,
                           events : Masks \union {"none"},
                           status : 0..1,
                           call_back : {"NULL", "acceptconnection", "recvData", "sendData"}]]
    /\ tree \in [Fds \union {LFD} -> {NoReg} \union [ptr : Slots, mask : Masks]]
    /\ batch \subseteq Report
    /\ cur \in {NoReport} \union Report
    /\ step \in {"next", "in", "out"}
    /\ file \in [Fds -> Clients \union {NoClient}]
    /\ Range(queue) \subseteq Clients /\ Len(queue) <= Cardinality(Clients)
    /\ peer \in [Clients -> {"idle", "up", "fin", "rst"}]
    /\ toSend \in [Clients -> 0..MaxSend]
    /\ rcv \in [Clients -> 0..MaxSend]
    /\ snd \in [Clients -> 0..SndBuf]

(***************************************************************************)
(* The slot array and the kernel's interest list never drift apart,        *)
(* whatever sequence of setevent, eventadd and eventdel calls led here: a  *)
(* slot says it is in the tree exactly when the tree watches an open       *)
(* descriptor for it, under the interest and callback of the slot.  This   *)
(* is what keeps every epoll_ctl() of eventadd() legal.                    *)
(***************************************************************************)
RegistrationsAgree ==
    server = "up" =>
      /\ \A fd \in Fds \union {LFD} : tree[fd] # NoReg =>
            /\ Watched(tree[fd].ptr) /\ Events[tree[fd].ptr].fd = fd
            /\ fd # LFD => file[fd] # NoClient
      /\ \A s \in Slots : Watched(s) =>
            /\ tree[Events[s].fd] = [ptr |-> s, mask |-> Events[s].events]
            /\ Events[s].events = "OUT" <=> Events[s].call_back = "sendData"

(***************************************************************************)
(* The callbacks run from one batch open, close and re-register            *)
(* descriptors while later reports of the batch wait.  No waiting report   *)
(* goes stale: its slot still stands for the connection that was reported, *)
(* with the reported interest, and its blocking recv(), send() or accept() *)
(* would not block the only thread.                                        *)
(***************************************************************************)
ReportsStillValid ==
    server = "up" =>
      \A r \in batch \union (IF step = "in" THEN {cur} ELSE {}) :
        LET e == Events[r.ptr]
        IN  Watched(r.ptr) /\ r.events = {e.events} /\ e.events \in Ready(e.fd)

(***************************************************************************)
(* The server leaves through a failing epoll_ctl() only after some client  *)
(* reset its connection (the second eventdel() of the error branch of      *)
(* sendData); orderly clients cannot bring it down that way.               *)
(***************************************************************************)
DiesOnlyOnReset == server = "exit_ctl" => \E c \in Clients : peer[c] = "rst"

ServedClients == {c \in Clients : Phase(c) \in {"reading", "replying"}}

(***************************************************************************)
(* acceptconnection forgets a connection, leaving its descriptor open,     *)
(* when it finds no free slot.  It does so only while MAXEVENT clients are *)
(* really being served, so no slot is lost over any sequence of closes,    *)
(* errors and reuses; and with more descriptors than slots the accept()    *)
(* that fails for want of a descriptor, and ends the process, is always    *)
(* due to connections forgotten before.                                    *)
(***************************************************************************)
TurnedAwayOnlyWhenFull ==
    [][ /\ (\E c \in Clients : Phase(c) # "neglected" /\ Phase(c)' = "neglected") =>
             Cardinality(ServedClients) = MAXEVENT
        /\ server' = "exit_accept" /\ server = "up" /\ MAXEVENT < Cardinality(Fds) =>
             \E c \in Clients : Phase(c) = "neglected" ]_vars

(***************************************************************************)
(* No watched connection starves: what it sent is read, and what was read  *)
(* is answered, as long as the server is up and clients read their         *)
(* replies, however the reports of other connections are ordered.          *)
(***************************************************************************)
EveryRequestAnswered ==
    \A c \in Clients :
      /\ (Phase(c) = "reading" /\ rcv[c] > 0) ~> Phase(c) \in {"replying", "closed"}
      /\ Phase(c) = "replying" ~> Phase(c) \in {"reading", "closed"}

(***************************************************************************)
(* A client that disconnects, in order or not, has its descriptor closed   *)
(* and its slot freed, unless it was never given a slot.                   *)
(***************************************************************************)
DisconnectNoticed ==
    \A c \in Clients :
      (Phase(c) \in {"reading", "replying"} /\ peer[c] # "up") ~> Phase(c) = "closed"

\* The phases of the abstract server are what the reactor does with each client.
Abstract == INSTANCE RequestReply WITH
    phase  <- [c \in Clients |-> Phase(c)],
    halted <- server \notin {"boot", "up"}

(***************************************************************************)
(* The reactor is a request-reply server for each of its clients: sendData *)
(* answers only what recvData read on the same connection, the two take    *)
(* turns, and a closed connection is never touched again, although slots   *)
(* and descriptors are reused.                                             *)
(***************************************************************************)
ImplementsRequestReply == Abstract!Spec
=============================================================================
