------------------------- MODULE EpollReactorProofs -------------------------
(***************************************************************************)
(* myEpollReactor.c for every number of clients, slots, descriptors and    *)
(* segments: the slot array and the interest list agree, no report of a    *)
(* batch goes stale, and the reactor implements RequestReply.              *)
(***************************************************************************)
EXTENDS EpollReactor, AcceptQueueLemmas, FiniteSetTheorems

Running == server \in {"boot", "up"}

\* What a slot of Events, and an entry of the interest list, holds.
SlotData == [fd : 0..FdLimit, events : {"IN", "OUT", "none"}, status : 0..1,
             call_back : {"NULL", "acceptconnection", "recvData", "sendData"}]
Regs == [ptr : Slots, mask : Masks]

\* The variables of main(), and all the others, have their types.
LoopTypes ==
    /\ batch \subseteq Report
    /\ step \in {"next", "in", "out"}
    /\ step # "next" => cur \in Report

Types ==
    /\ Events \in [Slots -> SlotData]
    /\ tree \in [Fds \union {LFD} -> {NoReg} \union Regs]
    /\ file \in [Fds -> Clients \union {NoClient}]
    /\ queue \in Seq(Clients)
    /\ peer \in [Clients -> {"idle", "up", "fin", "rst"}]
    /\ toSend \in [Clients -> Nat]
    /\ rcv \in [Clients -> Nat]
    /\ snd \in [Clients -> Nat]

\* The last slot is the listener's and no other's.
Listener ==
    /\ Events[MAXEVENT].fd = LFD /\ Events[MAXEVENT].events = "IN"
    /\ Events[MAXEVENT].status = 1 /\ Events[MAXEVENT].call_back = "acceptconnection"

\* A connection is in the queue, behind one descriptor or closed, and there is
\* none before its client connects.
Connections ==
    /\ Distinct(queue)
    /\ \A c \in Clients : InQ(c, queue) =>
         peer[c] # "idle" /\ \A fd \in Fds : file[fd] # c
    /\ \A fd \in Fds : file[fd] # NoClient => peer[file[fd]] # "idle"
    /\ \A fd, gd \in Fds : file[fd] = file[gd] /\ file[fd] # NoClient => fd = gd

\* Before the loop nothing is watched, reported or open.
Fresh ==
    /\ batch = {} /\ step = "next"
    /\ \A fd \in Fds \union {LFD} : tree[fd] = NoReg
    /\ \A s \in ConnSlots : ~Watched(s)
    /\ \A fd \in Fds : file[fd] = NoClient

\* The slots that say they are in the tree are what the tree watches.
Registered ==
    /\ tree[LFD] # NoReg /\ tree[LFD].ptr = MAXEVENT /\ tree[LFD].mask = "IN"
    /\ \A fd \in Fds : tree[fd] # NoReg =>
         /\ tree[fd].ptr \in ConnSlots /\ Watched(tree[fd].ptr)
         /\ Events[tree[fd].ptr].fd = fd /\ file[fd] # NoClient
    /\ \A s \in ConnSlots : Watched(s) =>
         /\ Events[s].fd \in Fds /\ tree[Events[s].fd] # NoReg
         /\ tree[Events[s].fd].ptr = s /\ tree[Events[s].fd].mask = Events[s].events
         /\ \/ Events[s].events = "IN" /\ Events[s].call_back = "recvData"
            \/ Events[s].events = "OUT" /\ Events[s].call_back = "sendData"

\* Report r is about a watched slot whose interest is ready.
Valid(r) ==
    /\ Watched(r.ptr) /\ r.events = {Events[r.ptr].events}
    /\ Events[r.ptr].events \in Ready(Events[r.ptr].fd)

\* The reports not handled yet are valid, and about other slots than the one
\* being handled; after recvData or acceptconnection only the second test of
\* the loop body is left, which such a report does not ask for.
Handling ==
    /\ \A r \in batch : Valid(r)
    /\ step # "next" => \A r \in batch : r.ptr # cur.ptr
    /\ step = "in" => Valid(cur)
    /\ step = "out" => cur.events = {"IN"} \/ Valid(cur)

IndInv ==
    /\ DiesOnlyOnReset
    /\ Running => LoopTypes /\ Types /\ Listener /\ Connections
    /\ server = "boot" => Fresh
    /\ server = "up" => Registered /\ Handling

-----------------------------------------------------------------------------
(* What the calls on a configuration do.                                    *)

Arrays == [Slots -> SlotData]
Trees == [Fds \union {LFD} -> {NoReg} \union Regs]

\* A configuration of a process that goes on.
Conf(cf) ==
    /\ DOMAIN cf = {"ev", "tree", "dead"}
    /\ cf.ev \in Arrays /\ cf.tree \in Trees /\ ~cf.dead

\* Slot s of E holds these four fields.
Holds(E, s, fd, m, st, cb) ==
    E[s].fd = fd /\ E[s].events = m /\ E[s].status = st /\ E[s].call_back = cb

\* Nothing but slot s, or descriptor fd, differs.
SameButSlot(E, F, s) == \A r \in Slots : r # s => F[r] = E[r]
SameButFd(T, U, fd) == \A gd \in Fds \union {LFD} : gd # fd => U[gd] = T[gd]

\* eventdel() of a slot that is in the tree.
LEMMA Deleted ==
    ASSUME NEW cf, Conf(cf), NEW s \in Slots, NEW fd \in Fds \union {LFD}, NEW m, NEW cb,
           Holds(cf.ev, s, fd, m, 1, cb), cf.tree[fd] # NoReg,
           NEW g, g = eventdel(cf, s)
    PROVE  /\ Conf(g) /\ Holds(g.ev, s, fd, m, 0, cb) /\ g.tree[fd] = NoReg
           /\ SameButSlot(cf.ev, g.ev, s) /\ SameButFd(cf.tree, g.tree, fd)
<1>1. g = [cf EXCEPT !.ev[s].status = 0, !.tree[fd] = NoReg]
  BY DEF eventdel, Conf, Holds
<1>2. /\ DOMAIN g = {"ev", "tree", "dead"} /\ g.dead = cf.dead
      /\ g.ev = [cf.ev EXCEPT ![s].status = 0]
      /\ g.tree = [cf.tree EXCEPT ![fd] = NoReg]
  BY <1>1 DEF Conf
<1>3. cf.ev[s] \in SlotData
  BY DEF Conf, Arrays
<1> DEFINE e == [cf.ev[s] EXCEPT !.status = 0]
<1>4. /\ e \in SlotData /\ e.status = 0 /\ e.fd = cf.ev[s].fd
      /\ e.events = cf.ev[s].events /\ e.call_back = cf.ev[s].call_back
  BY <1>3 DEF SlotData
<1>5. g.ev \in Arrays /\ g.ev[s] = e /\ SameButSlot(cf.ev, g.ev, s)
  BY <1>2, <1>4 DEF Conf, Arrays, SameButSlot
<1>6. g.tree \in Trees /\ g.tree[fd] = NoReg /\ SameButFd(cf.tree, g.tree, fd)
  BY <1>2 DEF Conf, Trees, SameButFd
<1> HIDE DEF e
<1> QED BY <1>2, <1>4, <1>5, <1>6 DEF Conf, Holds

\* eventadd() of a slot whose descriptor is not in the tree.
LEMMA Added ==
    ASSUME NEW cf, Conf(cf), NEW s \in Slots, NEW fd \in Fds \union {LFD}, NEW m \in Masks,
           NEW cb, Holds(cf.ev, s, fd, m, 0, cb), cf.tree[fd] = NoReg,
           NEW g, g = eventadd(cf, s)
    PROVE  /\ Conf(g) /\ Holds(g.ev, s, fd, m, 1, cb)
           /\ g.tree[fd] = [ptr |-> s, mask |-> m]
           /\ SameButSlot(cf.ev, g.ev, s) /\ SameButFd(cf.tree, g.tree, fd)
<1> DEFINE reg == [ptr |-> s, mask |-> m]
<1>0. reg \in Regs
  BY DEF Regs
<1>1. g = [[cf EXCEPT !.ev[s].status = 1] EXCEPT !.tree[fd] = reg]
  BY DEF eventadd, Conf, Holds
<1> HIDE DEF reg
<1>2. /\ DOMAIN g = {"ev", "tree", "dead"} /\ g.dead = cf.dead
      /\ g.ev = [cf.ev EXCEPT ![s].status = 1]
      /\ g.tree = [cf.tree EXCEPT ![fd] = reg]
  BY <1>1 DEF Conf
<1>3. cf.ev[s] \in SlotData
  BY DEF Conf, Arrays
<1> DEFINE e == [cf.ev[s] EXCEPT !.status = 1]
<1>4. /\ e \in SlotData /\ e.status = 1 /\ e.fd = cf.ev[s].fd
      /\ e.events = cf.ev[s].events /\ e.call_back = cf.ev[s].call_back
  BY <1>3 DEF SlotData
<1>5. g.ev \in Arrays /\ g.ev[s] = e /\ SameButSlot(cf.ev, g.ev, s)
  BY <1>2, <1>4 DEF Conf, Arrays, SameButSlot
<1>6. g.tree \in Trees /\ g.tree[fd] = reg /\ SameButFd(cf.tree, g.tree, fd)
  BY <1>0, <1>2 DEF Conf, Trees, SameButFd
<1> HIDE DEF e
<1> QED BY <1>2, <1>4, <1>5, <1>6 DEF Conf, Holds, reg

\* setcall() changes the interest and the callback of the slot.
LEMMA CallSet ==
    ASSUME NEW cf, Conf(cf), NEW s \in Slots, NEW fd, NEW m, NEW st, NEW cb,
           Holds(cf.ev, s, fd, m, st, cb),
           NEW n \in Masks, NEW db \in {"recvData", "sendData"},
           NEW g, g = setcall(cf, s, n, db)
    PROVE  /\ Conf(g) /\ Holds(g.ev, s, fd, n, st, db)
           /\ SameButSlot(cf.ev, g.ev, s) /\ g.tree = cf.tree
<1> DEFINE e == [cf.ev[s] EXCEPT !.events = n, !.call_back = db]
<1>1. g = [cf EXCEPT !.ev[s] = e]
  BY DEF setcall, Conf
<1>3. cf.ev[s] \in SlotData
  BY DEF Conf, Arrays
<1>4. /\ e \in SlotData /\ e.status = cf.ev[s].status /\ e.fd = cf.ev[s].fd
      /\ e.events = n /\ e.call_back = db
  BY <1>3 DEF SlotData, Masks
<1> HIDE DEF e
<1>2. /\ DOMAIN g = {"ev", "tree", "dead"} /\ g.dead = cf.dead
      /\ g.ev = [cf.ev EXCEPT ![s] = e] /\ g.tree = cf.tree
  BY <1>1 DEF Conf
<1>5. g.ev \in Arrays /\ g.ev[s] = e /\ SameButSlot(cf.ev, g.ev, s)
  BY <1>2, <1>4 DEF Conf, Arrays, SameButSlot
<1> QED BY <1>2, <1>4, <1>5 DEF Conf, Holds

\* setevent() fills a slot for a new descriptor, not yet in the tree.
LEMMA EventSet ==
    ASSUME NEW cf, Conf(cf), NEW s \in Slots, NEW fd \in 0..FdLimit, NEW m \in Masks,
           NEW g, g = setevent(cf, s, fd, m)
    PROVE  /\ Conf(g) /\ Holds(g.ev, s, fd, m, 0, cf.ev[s].call_back)
           /\ SameButSlot(cf.ev, g.ev, s) /\ g.tree = cf.tree
<1> DEFINE e == [cf.ev[s] EXCEPT !.fd = fd, !.events = m, !.status = 0]
<1>1. g = [cf EXCEPT !.ev[s] = e]
  BY DEF setevent, Conf
<1>3. cf.ev[s] \in SlotData
  BY DEF Conf, Arrays
<1>4. /\ e \in SlotData /\ e.status = 0 /\ e.fd = fd
      /\ e.events = m /\ e.call_back = cf.ev[s].call_back
  <2>1. PICK x \in SlotData : x = cf.ev[s]
    BY <1>3
  <2> DEFINE y == [x EXCEPT !.fd = fd, !.events = m]
  <2>2. y \in SlotData /\ y.fd = fd /\ y.events = m /\ y.call_back = x.call_back
    BY DEF SlotData, Masks
  <2>3. e = [y EXCEPT !.status = 0]
    BY <2>1, <2>2
  <2> HIDE DEF e, y
  <2>4. /\ e \in SlotData /\ e.status = 0 /\ e.fd = y.fd
        /\ e.events = y.events /\ e.call_back = y.call_back
    BY <2>2, <2>3 DEF SlotData
  <2> QED BY <2>1, <2>2, <2>4
<1> HIDE DEF e
<1>2. /\ DOMAIN g = {"ev", "tree", "dead"} /\ g.dead = cf.dead
      /\ g.ev = [cf.ev EXCEPT ![s] = e] /\ g.tree = cf.tree
  BY <1>1 DEF Conf
<1>5. g.ev \in Arrays /\ g.ev[s] = e /\ SameButSlot(cf.ev, g.ev, s)
  BY <1>2, <1>4 DEF Conf, Arrays, SameButSlot
<1> QED BY <1>2, <1>4, <1>5 DEF Conf, Holds

-----------------------------------------------------------------------------
(* What the callbacks commit.                                               *)

\* Slot s, which holds descriptor fd, is in the tree.
InTree(s, fd) ==
    /\ s \in Slots /\ fd \in Fds \union {LFD}
    /\ Events[s].fd = fd /\ Events[s].status = 1 /\ tree[fd] # NoReg

LEMMA ConfigConf == Types => Conf(Config) /\ Config.ev = Events /\ Config.tree = tree
  BY DEF Types, Conf, Config, Arrays, Trees

\* eventdel(), setcall() and eventadd(): the slot goes on with another callback.
LEMMA Rearms ==
    ASSUME Types, NEW s, NEW fd, InTree(s, fd),
           NEW n \in Masks, NEW db \in {"recvData", "sendData"},
           Commit(eventadd(setcall(eventdel(Config, s), s, n, db), s))
    PROVE  /\ Events' \in Arrays /\ tree' \in Trees /\ server' = server
           /\ Holds(Events', s, fd, n, 1, db) /\ tree'[fd] = [ptr |-> s, mask |-> n]
           /\ SameButSlot(Events, Events', s) /\ SameButFd(tree, tree', fd)
<1>0. /\ Conf(Config) /\ Config.ev = Events /\ Config.tree = tree
      /\ s \in Slots /\ fd \in Fds \union {LFD}
  BY ConfigConf DEF InTree
<1>m. PICK m, cb : m = Events[s].events /\ cb = Events[s].call_back
  OBVIOUS
<1>1. PICK f : f = eventdel(Config, s)
  OBVIOUS
<1>2. /\ Conf(f) /\ Holds(f.ev, s, fd, m, 0, cb)
      /\ f.tree[fd] = NoReg
      /\ SameButSlot(Events, f.ev, s) /\ SameButFd(tree, f.tree, fd)
  <2>1. Holds(Config.ev, s, fd, m, 1, cb) /\ Config.tree[fd] # NoReg
    BY <1>0, <1>m DEF InTree, Holds
  <2> QED BY <1>0, <1>1, <2>1, Deleted
<1>3. PICK g : g = setcall(f, s, n, db)
  OBVIOUS
<1>4. /\ Conf(g) /\ Holds(g.ev, s, fd, n, 0, db) /\ g.tree = f.tree
      /\ SameButSlot(f.ev, g.ev, s)
  BY <1>0, <1>2, <1>3, CallSet
<1>5. PICK h : h = eventadd(g, s)
  OBVIOUS
<1>6. /\ Conf(h) /\ Holds(h.ev, s, fd, n, 1, db) /\ h.tree[fd] = [ptr |-> s, mask |-> n]
      /\ SameButSlot(g.ev, h.ev, s) /\ SameButFd(g.tree, h.tree, fd)
  BY <1>0, <1>2, <1>4, <1>5, Added
<1>7. Events' = h.ev /\ tree' = h.tree /\ server' = server
  BY <1>1, <1>3, <1>5, <1>6 DEF Commit, Conf
<1>8. SameButSlot(Events, h.ev, s) /\ SameButFd(tree, h.tree, fd)
  BY <1>2, <1>4, <1>6 DEF SameButSlot, SameButFd
<1> QED BY <1>6, <1>7, <1>8 DEF Conf

\* eventdel() alone, before close().
LEMMA Drops ==
    ASSUME Types, NEW s, NEW fd, InTree(s, fd), Commit(eventdel(Config, s))
    PROVE  /\ Events' \in Arrays /\ tree' \in Trees /\ server' = server
           /\ Events'[s].status = 0 /\ tree'[fd] = NoReg
           /\ SameButSlot(Events, Events', s) /\ SameButFd(tree, tree', fd)
<1>0. /\ Conf(Config) /\ Config.ev = Events /\ Config.tree = tree
      /\ s \in Slots /\ fd \in Fds \union {LFD}
  BY ConfigConf DEF InTree
<1>1. PICK f : f = eventdel(Config, s)
  OBVIOUS
<1>2. Holds(Config.ev, s, fd, Events[s].events, 1, Events[s].call_back)
      /\ Config.tree[fd] # NoReg
  BY <1>0 DEF InTree, Holds
<1>3. /\ Conf(f) /\ Holds(f.ev, s, fd, Events[s].events, 0, Events[s].call_back)
      /\ f.tree[fd] = NoReg
      /\ SameButSlot(Events, f.ev, s) /\ SameButFd(tree, f.tree, fd)
  BY <1>0, <1>1, <1>2, Deleted
<1>4. Events' = f.ev /\ tree' = f.tree /\ server' = server
  BY <1>1, <1>3 DEF Commit, Conf
<1> QED BY <1>3, <1>4 DEF Conf, Holds

\* The second eventdel() of the error branch of sendData ends the process.
LEMMA DropsTwice ==
    ASSUME Types, NEW s, NEW fd, InTree(s, fd), Commit(eventdel(eventdel(Config, s), s))
    PROVE  server' = "exit_ctl"
<1>0. /\ Conf(Config) /\ Config.ev = Events /\ Config.tree = tree
      /\ s \in Slots /\ fd \in Fds \union {LFD}
  BY ConfigConf DEF InTree
<1>1. PICK f : f = eventdel(Config, s)
  OBVIOUS
<1>2. Holds(Config.ev, s, fd, Events[s].events, 1, Events[s].call_back)
      /\ Config.tree[fd] # NoReg
  BY <1>0 DEF InTree, Holds
<1>3. Conf(f) /\ f.ev[s].status = 0
  BY <1>0, <1>1, <1>2, Deleted DEF Holds
<1>4. eventdel(f, s) = [f EXCEPT !.dead = TRUE]
  BY <1>3 DEF eventdel, Conf
<1>5. eventdel(f, s).dead
  BY <1>3, <1>4 DEF Conf
<1> QED BY <1>1, <1>5 DEF Commit

\* setevent(), eventadd() and setcall() for an accepted connection.
LEMMA Registers ==
    ASSUME Types, NEW s \in Slots, NEW fd \in Fds, tree[fd] = NoReg,
           Commit(setcall(eventadd(setevent(Config, s, fd, "IN"), s), s, "IN", "recvData"))
    PROVE  /\ Events' \in Arrays /\ tree' \in Trees /\ server' = server
           /\ Holds(Events', s, fd, "IN", 1, "recvData")
           /\ tree'[fd] = [ptr |-> s, mask |-> "IN"]
           /\ SameButSlot(Events, Events', s) /\ SameButFd(tree, tree', fd)
<1>0. /\ Conf(Config) /\ Config.ev = Events /\ Config.tree = tree
      /\ "IN" \in Masks /\ fd \in 0..FdLimit
  BY ConfigConf, SizesAssumption DEF Masks, Fds
<1>1. PICK f : f = setevent(Config, s, fd, "IN")
  OBVIOUS
<1>2. /\ Conf(f) /\ Holds(f.ev, s, fd, "IN", 0, Events[s].call_back) /\ f.tree = tree
      /\ SameButSlot(Events, f.ev, s)
  BY <1>0, <1>1, EventSet
<1>3. PICK g : g = eventadd(f, s)
  OBVIOUS
<1>4. /\ Conf(g) /\ Holds(g.ev, s, fd, "IN", 1, Events[s].call_back)
      /\ g.tree[fd] = [ptr |-> s, mask |-> "IN"]
      /\ SameButSlot(f.ev, g.ev, s) /\ SameButFd(tree, g.tree, fd)
  BY <1>0, <1>2, <1>3, Added
<1>5. PICK h : h = setcall(g, s, "IN", "recvData")
  OBVIOUS
<1>6. /\ Conf(h) /\ Holds(h.ev, s, fd, "IN", 1, "recvData") /\ h.tree = g.tree
      /\ SameButSlot(g.ev, h.ev, s)
  BY <1>0, <1>4, <1>5, CallSet
<1>7. Events' = h.ev /\ tree' = h.tree /\ server' = server
  BY <1>1, <1>3, <1>5, <1>6 DEF Commit, Conf
<1>8. SameButSlot(Events, h.ev, s)
  BY <1>2, <1>4, <1>6 DEF SameButSlot
<1> QED BY <1>4, <1>6, <1>7, <1>8 DEF Conf

-----------------------------------------------------------------------------
(* The effects of the callbacks, variable by variable.                      *)

\* Slot s now has descriptor fd, and the tree watches it for that slot.
Placed(s, fd, m, cb) ==
    /\ Events' \in Arrays /\ tree' \in Trees
    /\ Holds(Events', s, fd, m, 1, cb) /\ tree'[fd] = [ptr |-> s, mask |-> m]
    /\ SameButSlot(Events, Events', s) /\ SameButFd(tree, tree', fd)

Files == [Fds -> Clients \union {NoClient}]
SameButFile(fd) == \A gd \in Fds : gd # fd => file'[gd] = file[gd]

\* accept() gives client w, the first of the queue, the descriptor fd.
Taken(fd, w) ==
    /\ fd \in Fds /\ file[fd] = NoClient /\ w \in Clients /\ InQ(w, queue)
    /\ file' \in Files /\ file'[fd] = w /\ SameButFile(fd)
    /\ queue' \in Seq(Clients) /\ Distinct(queue')
    /\ \A c : InQ(c, queue') <=> InQ(c, queue) /\ c # w
    /\ UNCHANGED <<peer, toSend, rcv, snd>>

\* The connection of c, in slot s, gets the other callback.
Turned(s, fd, c, m, cb) ==
    /\ Placed(s, fd, m, cb)
    /\ rcv' \in [Clients -> Nat] /\ snd' \in [Clients -> Nat]
    /\ \A d \in Clients : d # c => rcv'[d] = rcv[d] /\ snd'[d] = snd[d]
    /\ UNCHANGED <<file, queue, peer, toSend>>

\* The connection in slot s is closed.
Hung(s, fd) ==
    /\ Events' \in Arrays /\ tree' \in Trees
    /\ Events'[s].status = 0 /\ tree'[fd] = NoReg
    /\ SameButSlot(Events, Events', s) /\ SameButFd(tree, tree', fd)
    /\ file' \in Files /\ file'[fd] = NoClient /\ SameButFile(fd)
    /\ UNCHANGED <<queue, peer, toSend, rcv, snd>>

\* What holds while the server is up.
LEMMA UpInv == ASSUME IndInv, server = "up"
               PROVE  /\ LoopTypes /\ Types /\ Listener /\ Connections
                      /\ Registered /\ Handling
  BY DEF IndInv, Running

\* The slot of a connection, its descriptor and its client.
LEMMA SlotOwner ==
    ASSUME IndInv, server = "up", NEW s \in ConnSlots, Watched(s)
    PROVE  /\ s \in Slots /\ Events[s].fd \in Fds /\ Events[s].fd # LFD
           /\ file[Events[s].fd] \in Clients /\ InTree(s, Events[s].fd)
<1>1. s \in Slots /\ Events[s].fd \in Fds /\ tree[Events[s].fd] # NoReg
  BY UpInv DEF ConnSlots, Registered
<1>2. file[Events[s].fd] # NoClient
  BY <1>1, UpInv DEF Registered
<1>3. file[Events[s].fd] \in Clients
  BY <1>1, <1>2, UpInv DEF Types
<1>4. LFD \notin Fds
  BY SizesAssumption DEF LFD, Fds
<1> QED BY <1>1, <1>3, <1>4 DEF InTree, Watched

\* acceptconnection() fails, forgets the connection or gives it a free slot.
LEMMA AcceptEffect ==
    ASSUME IndInv, server = "up", acceptconnection
    PROVE  \/ server' = "exit_accept"
           \/ /\ server' = "up"
              /\ \E fd \in Fds, w \in Clients :
                   /\ Taken(fd, w)
                   /\ \/ FreeSlots = {} /\ UNCHANGED <<Events, tree>>
                      \/ \E t \in ConnSlots : ~Watched(t) /\ Placed(t, fd, "IN", "recvData")
<1>0. Types /\ Connections /\ Registered
  BY UpInv
<1>1. CASE FreeFds = {}
  BY <1>1 DEF acceptconnection
<1>2. CASE FreeFds # {}
  <2>1. PICK fd : fd = Min(FreeFds)
    OBVIOUS
  <2>2. fd \in Fds /\ file[fd] = NoClient
    <3>1. FreeFds \in SUBSET Nat
      BY SizesAssumption DEF FreeFds, Fds
    <3> QED BY <1>2, <2>1, <3>1, LeastExists DEF FreeFds
  <2>3. PICK w : w = Head(queue)
    OBVIOUS
  <2>4. /\ queue # <<>> /\ file' = [file EXCEPT ![fd] = w] /\ queue' = Tail(queue)
        /\ UNCHANGED peerVars
        /\ IF FreeSlots = {} THEN UNCHANGED <<server, Events, tree>>
           ELSE LET s == Min(FreeSlots)
                IN  Commit(setcall(eventadd(setevent(Config, s, fd, "IN"), s),
                                   s, "IN", "recvData"))
    BY <1>2, <2>1, <2>3 DEF acceptconnection, Readable
  <2>5. /\ w \in Clients /\ InQ(w, queue) /\ queue' \in Seq(Clients) /\ Distinct(queue')
        /\ \A c : InQ(c, queue') <=> InQ(c, queue) /\ c # w
    BY <1>0, <2>3, <2>4, QueueHead DEF Types, Connections
  <2>6. file' \in Files /\ file'[fd] = w /\ SameButFile(fd)
    BY <1>0, <2>2, <2>4, <2>5 DEF Types, Files, SameButFile
  <2>7. Taken(fd, w)
    BY <2>2, <2>4, <2>5, <2>6 DEF Taken, peerVars
  <2>8. CASE FreeSlots = {}
    BY <2>2, <2>4, <2>5, <2>7, <2>8
  <2>9. CASE FreeSlots # {}
    <3>1. PICK s : s = Min(FreeSlots)
      OBVIOUS
    <3>2. s \in ConnSlots /\ Events[s].status = 0 /\ s \in Slots
      <4>1. FreeSlots \in SUBSET Nat
        BY SizesAssumption DEF FreeSlots, ConnSlots, Slots
      <4> QED BY <2>9, <3>1, <4>1, LeastExists DEF FreeSlots, ConnSlots
    <3>3. tree[fd] = NoReg
      BY <1>0, <2>2 DEF Registered
    <3>4. Commit(setcall(eventadd(setevent(Config, s, fd, "IN"), s), s, "IN", "recvData"))
      BY <2>4, <2>9, <3>1
    <3>5. Placed(s, fd, "IN", "recvData") /\ server' = server
      BY <1>0, <2>2, <3>2, <3>3, <3>4, Registers DEF Placed
    <3> QED BY <2>2, <2>5, <2>7, <3>2, <3>5 DEF Watched
  <2> QED BY <2>8, <2>9
<1> QED BY <1>1, <1>2

\* recvData() turns the slot to sendData, or closes the connection.
LEMMA RecvEffect ==
    ASSUME IndInv, server = "up", NEW s \in ConnSlots, Watched(s), recvData(s),
           NEW fd, fd = Events[s].fd, NEW c, c = file[fd]
    PROVE  /\ server' = "up"
           /\ Turned(s, fd, c, "OUT", "sendData") \/ Hung(s, fd)
<1>0. Types /\ fd \in Fds /\ c \in Clients /\ InTree(s, fd)
  BY UpInv, SlotOwner
<1>1. CASE rcv[c] > 0
  <2>1. /\ \E left \in 0..(rcv[c] - 1) : rcv' = [rcv EXCEPT ![c] = left]
        /\ Commit(eventadd(setcall(eventdel(Config, s), s, "OUT", "sendData"), s))
        /\ UNCHANGED <<file, queue, peer, toSend, snd>>
    BY <1>0, <1>1 DEF recvData, Types
  <2>2. Placed(s, fd, "OUT", "sendData") /\ server' = server
    <3>1. "OUT" \in Masks
      BY DEF Masks
    <3> QED BY <1>0, <2>1, <3>1, Rearms DEF Placed
  <2>3. PICK left \in 0..(rcv[c] - 1) : rcv' = [rcv EXCEPT ![c] = left]
    BY <2>1
  <2>4. left \in Nat
    BY <1>0 DEF Types
  <2>5. rcv' \in [Clients -> Nat] /\ \A d \in Clients : d # c => rcv'[d] = rcv[d]
    BY <1>0, <2>3, <2>4 DEF Types
  <2> QED BY <1>0, <2>1, <2>2, <2>5 DEF Turned, Types
<1>2. CASE rcv[c] = 0
  <2>1. /\ Commit(eventdel(Config, s))
        /\ file' = [file EXCEPT ![fd] = IF server' = "up" THEN NoClient ELSE @]
        /\ UNCHANGED <<queue, peer, toSend, rcv, snd>>
    BY <1>0, <1>2 DEF recvData, Types
  <2>2. /\ Events' \in Arrays /\ tree' \in Trees /\ server' = server
        /\ Events'[s].status = 0 /\ tree'[fd] = NoReg
        /\ SameButSlot(Events, Events', s) /\ SameButFd(tree, tree', fd)
    BY <1>0, <2>1, Drops
  <2>3. file' \in Files /\ file'[fd] = NoClient /\ SameButFile(fd)
    BY <1>0, <2>1, <2>2 DEF Types, Files, SameButFile
  <2> QED BY <2>1, <2>2, <2>3 DEF Hung
<1> QED BY <1>0, <1>1, <1>2 DEF recvData, Types

\* sendData() turns the slot to recvData, or fails on a reset connection.
LEMMA SendEffect ==
    ASSUME IndInv, server = "up", NEW s \in ConnSlots, Watched(s), sendData(s),
           NEW fd, fd = Events[s].fd, NEW c, c = file[fd]
    PROVE  \/ server' = "up" /\ Turned(s, fd, c, "IN", "recvData")
           \/ server' = "exit_ctl" /\ peer'[c] = "rst"
<1>0. Types /\ fd \in Fds /\ c \in Clients /\ InTree(s, fd)
  BY UpInv, SlotOwner
<1>1. CASE peer[c] # "rst"
  <2>1. /\ snd' = [snd EXCEPT ![c] = IF peer[c] = "up" THEN @ + 1 ELSE @]
        /\ Commit(eventadd(setcall(eventdel(Config, s), s, "IN", "recvData"), s))
        /\ UNCHANGED <<file, queue, peer, toSend, rcv>>
    BY <1>1 DEF sendData
  <2>2. Placed(s, fd, "IN", "recvData") /\ server' = server
    <3>1. "IN" \in Masks
      BY DEF Masks
    <3> QED BY <1>0, <2>1, <3>1, Rearms DEF Placed
  <2>3. snd' \in [Clients -> Nat] /\ \A d \in Clients : d # c => snd'[d] = snd[d]
    BY <1>0, <2>1 DEF Types
  <2> QED BY <1>0, <2>1, <2>2, <2>3 DEF Turned, Types
<1>2. CASE peer[c] = "rst"
  <2>1. Commit(eventdel(eventdel(Config, s), s)) /\ UNCHANGED peer
    BY <1>2 DEF sendData
  <2> QED BY <1>0, <1>2, <2>1, DropsTwice
<1> QED BY <1>1, <1>2

-----------------------------------------------------------------------------
(* The invariant across a callback.                                         *)

LEMMA SlotFacts ==
    /\ MAXEVENT \in Slots /\ MAXEVENT \notin ConnSlots /\ LFD \notin Fds
    /\ \A s \in Slots : s = MAXEVENT \/ s \in ConnSlots
    /\ \A s \in ConnSlots : s \in Slots
  BY SizesAssumption DEF Slots, ConnSlots, LFD, Fds

\* A descriptor that was ready stays ready as long as nobody consumes.
LEMMA ReadyKept ==
    ASSUME NEW fd,
           \/ fd = LFD /\ (queue # <<>> => queue' # <<>>)
           \/ /\ fd # LFD /\ file'[fd] = file[fd]
              /\ file[fd] # NoClient =>
                   /\ rcv[file[fd]] > 0 => rcv'[file[fd]] > 0
                   /\ peer[file[fd]] # "up" => peer'[file[fd]] # "up"
                   /\ snd[file[fd]] < SndBuf => snd'[file[fd]] < SndBuf
    PROVE  Ready(fd) \subseteq Ready(fd)'
<1>1. Readable(fd) => Readable(fd)'
  BY DEF Readable
<1>2. Writable(fd) => Writable(fd)'
  BY DEF Writable
<1> QED BY <1>1, <1>2 DEF Ready

LEMMA ValidKept ==
    ASSUME NEW r, Valid(r), Events'[r.ptr] = Events[r.ptr],
           NEW fd, fd = Events[r.ptr].fd, Ready(fd) \subseteq Ready(fd)'
    PROVE  Valid(r)'
  BY DEF Valid, Watched, Ready, Readable, Writable

\* What a callback keeps: the reports about other slots among it.
Kept(s) ==
    /\ Types' /\ Listener' /\ Connections' /\ Registered'
    /\ \A r \in Report : r.ptr # s /\ Valid(r) => Valid(r)'

\* A slot other than the listener's that a valid report is about.
LEMMA ReportSlot ==
    ASSUME IndInv, server = "up", NEW r \in Report, Valid(r), NEW fd, fd = Events[r.ptr].fd
    PROVE  /\ r.ptr \in Slots /\ Watched(r.ptr)
           /\ r.ptr = MAXEVENT => fd = LFD
           /\ r.ptr # MAXEVENT => /\ r.ptr \in ConnSlots /\ fd \in Fds /\ fd # LFD
                                  /\ file[fd] \in Clients /\ tree[fd] # NoReg
                                  /\ tree[fd].ptr = r.ptr
<1>1. r.ptr \in Slots /\ Watched(r.ptr)
  BY DEF Report, Valid
<1> QED BY <1>1, UpInv, SlotFacts, SlotOwner DEF Listener, Registered

LEMMA TurnedKeeps ==
    ASSUME IndInv, server = "up", NEW s \in ConnSlots, Watched(s),
           NEW fd, fd = Events[s].fd, NEW c, c = file[fd],
           NEW m, NEW cb, <<m, cb>> \in {<<"IN", "recvData">>, <<"OUT", "sendData">>},
           Turned(s, fd, c, m, cb)
    PROVE  Kept(s)
<1>0. /\ Types /\ Listener /\ Connections /\ Registered
      /\ fd \in Fds /\ c \in Clients /\ s \in Slots /\ fd # LFD
  BY UpInv, SlotOwner
<1>m. m \in Masks /\ \/ m = "IN" /\ cb = "recvData"
                     \/ m = "OUT" /\ cb = "sendData"
  BY DEF Masks
<1>1. /\ Events' \in Arrays /\ tree' \in Trees
      /\ Events'[s].fd = fd /\ Events'[s].events = m /\ Events'[s].status = 1
      /\ Events'[s].call_back = cb
      /\ \A r \in Slots : r # s => Events'[r] = Events[r]
      /\ \A gd \in Fds \union {LFD} : gd # fd => tree'[gd] = tree[gd]
  BY DEF Turned, Placed, Holds, SameButSlot, SameButFd
<1>2. tree'[fd] # NoReg /\ tree'[fd].ptr = s /\ tree'[fd].mask = m
  BY <1>0, <1>m, NoRegAssumption DEF Turned, Placed, Masks, Slots
<1>3. /\ rcv' \in [Clients -> Nat] /\ snd' \in [Clients -> Nat]
      /\ \A d \in Clients : d # c => rcv'[d] = rcv[d] /\ snd'[d] = snd[d]
      /\ UNCHANGED <<file, queue, peer, toSend>>
  BY DEF Turned
<1>4. Types'
  BY <1>0, <1>1, <1>3 DEF Types, Arrays, Trees
<1>5. Listener' /\ Connections'
  BY <1>0, <1>1, <1>3, SlotFacts DEF Listener, Connections
<1>6. Registered'
  <2>1. tree'[LFD] # NoReg /\ tree'[LFD].ptr = MAXEVENT /\ tree'[LFD].mask = "IN"
    BY <1>0, <1>1 DEF Registered
  <2>2. ASSUME NEW gd \in Fds, tree'[gd] # NoReg
        PROVE  /\ tree'[gd].ptr \in ConnSlots /\ Events'[tree'[gd].ptr].status = 1
               /\ Events'[tree'[gd].ptr].fd = gd /\ file'[gd] # NoClient
    <3>1. CASE gd = fd
      BY <1>0, <1>1, <1>2, <1>3, <3>1, NoClientAssumption
    <3>2. CASE gd # fd
      BY <1>0, <1>1, <1>3, <2>2, <3>2, SlotFacts DEF Registered, Watched
    <3> QED BY <3>1, <3>2
  <2>3. ASSUME NEW r \in ConnSlots, Events'[r].status = 1
        PROVE  /\ Events'[r].fd \in Fds /\ tree'[Events'[r].fd] # NoReg
               /\ tree'[Events'[r].fd].ptr = r
               /\ tree'[Events'[r].fd].mask = Events'[r].events
               /\ \/ Events'[r].events = "IN" /\ Events'[r].call_back = "recvData"
                  \/ Events'[r].events = "OUT" /\ Events'[r].call_back = "sendData"
    <3>1. CASE r = s
      BY <1>0, <1>1, <1>2, <1>m, <3>1
    <3>2. CASE r # s
      <4>1. Events'[r] = Events[r] /\ Events[r].fd \in Fds /\ tree[Events[r].fd].ptr = r
        BY <1>0, <1>1, <2>3, <3>2, SlotFacts DEF Registered, Watched
      <4>2. Events[r].fd # fd
        BY <1>0, <3>2, <4>1 DEF Registered
      <4> QED BY <1>0, <1>1, <2>3, <4>1, <4>2 DEF Registered, Watched
    <3> QED BY <3>1, <3>2
  <2> QED BY <2>1, <2>2, <2>3 DEF Registered, Watched
<1>7. ASSUME NEW r \in Report, r.ptr # s, Valid(r) PROVE Valid(r)'
  <2>1. PICK gd : gd = Events[r.ptr].fd
    OBVIOUS
  <2>2. /\ r.ptr \in Slots /\ Watched(r.ptr)
        /\ r.ptr = MAXEVENT => gd = LFD
        /\ r.ptr # MAXEVENT => gd \in Fds /\ gd # LFD /\ file[gd] \in Clients /\ tree[gd].ptr = r.ptr
    BY <1>7, <2>1, ReportSlot
  <2>3. r.ptr # MAXEVENT => gd # fd /\ file[gd] # c
    BY <1>0, <1>7, <2>2 DEF Registered, Connections
  <2>4. Ready(gd) \subseteq Ready(gd)'
    BY <1>3, <2>2, <2>3, ReadyKept
  <2> QED BY <1>1, <1>7, <2>1, <2>2, <2>4, ValidKept
<1> QED BY <1>4, <1>5, <1>6, <1>7 DEF Kept

LEMMA HungKeeps ==
    ASSUME IndInv, server = "up", NEW s \in ConnSlots, Watched(s),
           NEW fd, fd = Events[s].fd, Hung(s, fd)
    PROVE  Kept(s)
<1>0. /\ Types /\ Listener /\ Connections /\ Registered
      /\ fd \in Fds /\ file[fd] \in Clients /\ s \in Slots /\ fd # LFD
  BY UpInv, SlotOwner
<1>1. /\ Events' \in Arrays /\ tree' \in Trees
      /\ Events'[s].status = 0 /\ tree'[fd] = NoReg
      /\ \A r \in Slots : r # s => Events'[r] = Events[r]
      /\ \A gd \in Fds \union {LFD} : gd # fd => tree'[gd] = tree[gd]
  BY DEF Hung, SameButSlot, SameButFd
<1>2. /\ file' \in Files /\ file'[fd] = NoClient
      /\ \A gd \in Fds : gd # fd => file'[gd] = file[gd]
      /\ UNCHANGED <<queue, peer, toSend, rcv, snd>>
  BY DEF Hung, SameButFile
<1>4. Types'
  BY <1>0, <1>1, <1>2 DEF Types, Arrays, Trees, Files
<1>5. Listener' /\ Connections'
  <2>1. Listener'
    BY <1>0, <1>1, SlotFacts DEF Listener
  <2>2. \A gd \in Fds : file'[gd] # NoClient => file'[gd] = file[gd] /\ gd # fd
    BY <1>2
  <2>3. \A c \in Clients, gd \in Fds : file'[gd] = c => file[gd] = c
    BY <2>2, NoClientAssumption
  <2>4. Connections'
    BY <1>0, <1>2, <2>2, <2>3 DEF Connections
  <2> QED BY <2>1, <2>4
<1>6. Registered'
  <2>1. tree'[LFD] # NoReg /\ tree'[LFD].ptr = MAXEVENT /\ tree'[LFD].mask = "IN"
    BY <1>0, <1>1 DEF Registered
  <2>2. ASSUME NEW gd \in Fds, tree'[gd] # NoReg
        PROVE  /\ tree'[gd].ptr \in ConnSlots /\ Events'[tree'[gd].ptr].status = 1
               /\ Events'[tree'[gd].ptr].fd = gd /\ file'[gd] # NoClient
    <3>1. gd # fd /\ tree'[gd] = tree[gd] /\ tree[gd].ptr # s /\ tree[gd].ptr \in Slots
      BY <1>0, <1>1, <2>2, SlotFacts DEF Registered
    <3> QED BY <1>0, <1>1, <1>2, <2>2, <3>1 DEF Registered, Watched
  <2>3. ASSUME NEW r \in ConnSlots, Events'[r].status = 1
        PROVE  /\ Events'[r].fd \in Fds /\ tree'[Events'[r].fd] # NoReg
               /\ tree'[Events'[r].fd].ptr = r
               /\ tree'[Events'[r].fd].mask = Events'[r].events
               /\ \/ Events'[r].events = "IN" /\ Events'[r].call_back = "recvData"
                  \/ Events'[r].events = "OUT" /\ Events'[r].call_back = "sendData"
    <3>1. r # s /\ Events'[r] = Events[r] /\ Events[r].fd \in Fds /\ tree[Events[r].fd].ptr = r
      BY <1>0, <1>1, <2>3, SlotFacts DEF Registered, Watched
    <3>2. Events[r].fd # fd
      BY <1>0, <3>1 DEF Registered
    <3> QED BY <1>0, <1>1, <2>3, <3>1, <3>2 DEF Registered, Watched
  <2> QED BY <2>1, <2>2, <2>3 DEF Registered, Watched
<1>7. ASSUME NEW r \in Report, r.ptr # s, Valid(r) PROVE Valid(r)'
  <2>1. PICK gd : gd = Events[r.ptr].fd
    OBVIOUS
  <2>2. /\ r.ptr \in Slots /\ Watched(r.ptr)
        /\ r.ptr = MAXEVENT => gd = LFD
        /\ r.ptr # MAXEVENT => gd \in Fds /\ gd # LFD /\ tree[gd].ptr = r.ptr
    BY <1>7, <2>1, ReportSlot
  <2>3. r.ptr # MAXEVENT => file'[gd] = file[gd]
    BY <1>0, <1>2, <1>7, <2>2 DEF Registered
  <2>4. Ready(gd) \subseteq Ready(gd)'
    BY <1>2, <2>2, <2>3, ReadyKept
  <2> QED BY <1>1, <1>7, <2>1, <2>2, <2>4, ValidKept
<1> QED BY <1>4, <1>5, <1>6, <1>7 DEF Kept

\* The connection gets a free slot, or none.
LEMMA TakenKeeps ==
    ASSUME IndInv, server = "up", NEW fd \in Fds, NEW w \in Clients, Taken(fd, w),
           \/ UNCHANGED <<Events, tree>>
           \/ \E t \in ConnSlots : ~Watched(t) /\ Placed(t, fd, "IN", "recvData")
    PROVE  Kept(MAXEVENT)
<1>0. /\ Types /\ Listener /\ Connections /\ Registered
  BY UpInv
<1>2. /\ file[fd] = NoClient /\ InQ(w, queue)
      /\ file' \in Files /\ file'[fd] = w
      /\ \A gd \in Fds : gd # fd => file'[gd] = file[gd]
      /\ queue' \in Seq(Clients) /\ Distinct(queue')
      /\ \A c : InQ(c, queue') <=> InQ(c, queue) /\ c # w
      /\ UNCHANGED <<peer, toSend, rcv, snd>>
  BY DEF Taken, SameButFile
<1>3. tree[fd] = NoReg /\ \A s \in ConnSlots : Watched(s) => Events[s].fd # fd
  BY <1>0, <1>2 DEF Registered
<1>4. Connections'
  <2>1. \A gd \in Fds : file[gd] # w
    BY <1>0, <1>2 DEF Connections
  <2>2. ASSUME NEW c \in Clients, InQ(c, queue')
        PROVE  peer'[c] # "idle" /\ \A gd \in Fds : file'[gd] # c
    BY <1>0, <1>2, <2>2 DEF Connections
  <2>3. ASSUME NEW gd \in Fds, file'[gd] # NoClient PROVE peer'[file'[gd]] # "idle"
    BY <1>0, <1>2, <2>3 DEF Connections
  <2>4. ASSUME NEW gd \in Fds, NEW hd \in Fds, file'[gd] = file'[hd], file'[gd] # NoClient
        PROVE  gd = hd
    BY <1>0, <1>2, <2>1, <2>4 DEF Connections
  <2> QED BY <1>2, <2>2, <2>3, <2>4 DEF Connections
<1>5. ASSUME NEW r \in Report, r.ptr # MAXEVENT, Valid(r), Events'[r.ptr] = Events[r.ptr]
      PROVE  Valid(r)'
  <2>1. PICK gd : gd = Events[r.ptr].fd
    OBVIOUS
  <2>2. gd \in Fds /\ gd # LFD /\ tree[gd] # NoReg
    BY <1>5, <2>1, ReportSlot
  <2>3. file'[gd] = file[gd]
    BY <1>2, <1>3, <2>2
  <2>4. Ready(gd) \subseteq Ready(gd)'
    BY <1>2, <2>2, <2>3, ReadyKept
  <2> QED BY <1>5, <2>1, <2>4, ValidKept
<1>6. CASE UNCHANGED <<Events, tree>>
  <2>1. Types'
    BY <1>0, <1>2, <1>6 DEF Types, Files
  <2>2. Listener'
    BY <1>0, <1>6 DEF Listener
  <2>3. Registered'
    BY <1>0, <1>2, <1>3, <1>6 DEF Registered, Watched
  <2> QED BY <1>4, <1>5, <1>6, <2>1, <2>2, <2>3 DEF Kept
<1>7. ASSUME NEW t \in ConnSlots, ~Watched(t), Placed(t, fd, "IN", "recvData")
      PROVE  Kept(MAXEVENT)
  <2>1. /\ Events' \in Arrays /\ tree' \in Trees /\ t \in Slots
        /\ Events'[t].fd = fd /\ Events'[t].events = "IN" /\ Events'[t].status = 1
        /\ Events'[t].call_back = "recvData"
        /\ \A r \in Slots : r # t => Events'[r] = Events[r]
        /\ \A gd \in Fds \union {LFD} : gd # fd => tree'[gd] = tree[gd]
    BY <1>7, SlotFacts DEF Placed, Holds, SameButSlot, SameButFd
  <2>2. tree'[fd] # NoReg /\ tree'[fd].ptr = t /\ tree'[fd].mask = "IN"
    BY <1>7, <2>1, NoRegAssumption DEF Placed, Slots
  <2>3. Types'
    BY <1>0, <1>2, <2>1 DEF Types, Arrays, Trees, Files
  <2>4. Listener'
    BY <1>0, <2>1, SlotFacts DEF Listener
  <2>5. Registered'
    <3>1. tree'[LFD] # NoReg /\ tree'[LFD].ptr = MAXEVENT /\ tree'[LFD].mask = "IN"
      BY <1>0, <2>1, SlotFacts DEF Registered
    <3>2. ASSUME NEW gd \in Fds, tree'[gd] # NoReg
          PROVE  /\ tree'[gd].ptr \in ConnSlots /\ Events'[tree'[gd].ptr].status = 1
                 /\ Events'[tree'[gd].ptr].fd = gd /\ file'[gd] # NoClient
      <4>1. CASE gd = fd
        BY <1>2, <2>1, <2>2, <4>1, NoClientAssumption
      <4>2. CASE gd # fd
        <5>1. tree'[gd] = tree[gd] /\ tree[gd].ptr \in ConnSlots /\ Watched(tree[gd].ptr)
          BY <1>0, <2>1, <3>2, <4>2 DEF Registered
        <5>2. Events'[tree[gd].ptr] = Events[tree[gd].ptr]
          BY <1>7, <2>1, <5>1, SlotFacts
        <5> QED BY <1>0, <1>2, <3>2, <4>2, <5>1, <5>2 DEF Registered, Watched
      <4> QED BY <4>1, <4>2
    <3>3. ASSUME NEW r \in ConnSlots, Events'[r].status = 1
          PROVE  /\ Events'[r].fd \in Fds /\ tree'[Events'[r].fd] # NoReg
                 /\ tree'[Events'[r].fd].ptr = r
                 /\ tree'[Events'[r].fd].mask = Events'[r].events
                 /\ \/ Events'[r].events = "IN" /\ Events'[r].call_back = "recvData"
                    \/ Events'[r].events = "OUT" /\ Events'[r].call_back = "sendData"
      <4>1. CASE r = t
        BY <2>1, <2>2, <4>1
      <4>2. CASE r # t
        <5>1. Events'[r] = Events[r] /\ Events[r].status = 1
          BY <2>1, <3>3, <4>2, SlotFacts
        <5>2. Events[r].fd \in Fds /\ Events[r].fd # fd
          BY <1>0, <1>3, <5>1 DEF Registered, Watched
        <5> QED BY <1>0, <2>1, <5>1, <5>2 DEF Registered, Watched
      <4> QED BY <4>1, <4>2
    <3> QED BY <3>1, <3>2, <3>3 DEF Registered, Watched
  <2>6. ASSUME NEW r \in Report, r.ptr # MAXEVENT, Valid(r) PROVE Valid(r)'
    <3>1. r.ptr \in Slots /\ r.ptr # t
      BY <1>7, <2>6, ReportSlot
    <3> QED BY <1>5, <2>1, <2>6, <3>1
  <2> QED BY <1>4, <2>3, <2>4, <2>5, <2>6 DEF Kept
<1> QED BY <1>6, <1>7

\* A callback leaves a serving server in order, or ends it.
LEMMA CallbackKeeps ==
    ASSUME IndInv, server = "up", NEW s \in Slots, Watched(s), Callback(s)
    PROVE  \/ server' = "up" /\ Kept(s)
           \/ server' = "exit_accept"
           \/ server' = "exit_ctl" /\ \E c \in Clients : peer'[c] = "rst"
<1>0. Listener /\ Registered
  BY UpInv
<1>1. CASE s = MAXEVENT
  <2>1. acceptconnection
    BY <1>0, <1>1 DEF Callback, Listener
  <2> QED BY <1>1, <2>1, AcceptEffect, TakenKeeps
<1>2. CASE s \in ConnSlots
  <2>1. PICK fd, c : fd = Events[s].fd /\ c = file[fd]
    OBVIOUS
  <2>2. c \in Clients
    BY <1>2, <2>1, SlotOwner
  <2>3. CASE recvData(s)
    <3>1. /\ server' = "up"
          /\ Turned(s, fd, c, "OUT", "sendData") \/ Hung(s, fd)
      BY <1>2, <2>1, <2>3, RecvEffect
    <3> QED BY <1>2, <2>1, <3>1, TurnedKeeps, HungKeeps
  <2>4. CASE sendData(s)
    <3>1. \/ server' = "up" /\ Turned(s, fd, c, "IN", "recvData")
          \/ server' = "exit_ctl" /\ peer'[c] = "rst"
      BY <1>2, <2>1, <2>4, SendEffect
    <3> QED BY <1>2, <2>1, <2>2, <3>1, TurnedKeeps
  <2> QED BY <1>0, <1>2, <2>3, <2>4 DEF Callback, Registered
<1> QED BY <1>1, <1>2, SlotFacts

\* A step that leaves everything but the loop's variables alone.
LEMMA Untouched ==
    ASSUME IndInv, server = "up", UNCHANGED <<server, Events, tree, file, queue, peerVars>>
    PROVE  /\ Types' /\ Listener' /\ Connections' /\ Registered' /\ server' = "up"
           /\ DiesOnlyOnReset'
           /\ \A r : Valid(r) => Valid(r)'
<1>0. Types /\ Listener /\ Connections /\ Registered
  BY UpInv
<1>1. UNCHANGED <<server, Events, tree, file, queue, peer, toSend, rcv, snd>>
  BY DEF peerVars
<1>2. Types' /\ Listener' /\ Connections'
  BY <1>0, <1>1 DEF Types, Listener, Connections
<1>3. Registered'
  BY <1>0, <1>1 DEF Registered, Watched
<1>4. \A r : Valid(r) => Valid(r)'
  BY <1>1 DEF Valid, Watched, Ready, Readable, Writable
<1>5. DiesOnlyOnReset'
  BY <1>1 DEF DiesOnlyOnReset
<1> QED BY <1>1, <1>2, <1>3, <1>4, <1>5

\* epoll_wait() reports only what is watched and ready.
LEMMA WaitPreserves == IndInv /\ EpollWait => IndInv'
<1> SUFFICES ASSUME IndInv, EpollWait, server' # "exit_wait" PROVE IndInv'
  BY DEF IndInv, Running, DiesOnlyOnReset
<1>0. /\ server = "up" /\ step = "next" /\ batch' = Reports
      /\ UNCHANGED <<server, Events, tree, file, queue, peerVars, cur, step>>
  BY DEF EpollWait
<1>1. /\ Types' /\ Listener' /\ Connections' /\ Registered' /\ server' = "up"
      /\ DiesOnlyOnReset' /\ \A r : Valid(r) => Valid(r)'
  BY <1>0, Untouched
<1>2. ASSUME NEW r \in Reports PROVE r \in Report /\ Valid(r)
  <2>1. PICK fd \in Fds \union {LFD} :
          /\ tree[fd] # NoReg /\ tree[fd].mask \in Ready(fd)
          /\ r = [ptr |-> tree[fd].ptr, events |-> Ready(fd) \intersect {tree[fd].mask}]
    BY DEF Reports
  <2>2. PICK s, m : s = tree[fd].ptr /\ m = tree[fd].mask
    OBVIOUS
  <2>3. s \in Slots /\ m \in Masks
    BY <1>0, <2>1, <2>2, UpInv DEF Types, Regs
  <2>4. r.ptr = s /\ r.events = {m}
    BY <2>1, <2>2
  <2>5. Watched(s) /\ Events[s].fd = fd /\ Events[s].events = m
    <3>1. CASE fd = LFD
      BY <1>0, <2>2, <3>1, UpInv DEF Registered, Listener, Watched
    <3>2. CASE fd \in Fds
      <4>1. s \in ConnSlots /\ Watched(s) /\ Events[s].fd = fd
        BY <1>0, <2>1, <2>2, <3>2, UpInv DEF Registered
      <4>2. tree[Events[s].fd].mask = Events[s].events
        BY <1>0, <4>1, UpInv DEF Registered
      <4> QED BY <2>2, <4>1, <4>2
    <3> QED BY <3>1, <3>2
  <2>6. Ready(fd) \intersect {tree[fd].mask} \in SUBSET Masks
    BY <2>2, <2>3
  <2>7. r \in Report
    BY <2>1, <2>2, <2>3, <2>6 DEF Report
  <2>8. Valid(r)
    BY <2>1, <2>2, <2>4, <2>5 DEF Valid
  <2> QED BY <2>7, <2>8
<1>3. LoopTypes' /\ Handling'
  BY <1>0, <1>1, <1>2 DEF LoopTypes, Handling
<1> QED BY <1>1, <1>3 DEF IndInv, Running

\* main() takes the next report; no two of a batch are about one slot.
LEMMA NextReportPreserves == IndInv /\ NextReport => IndInv'
<1> SUFFICES ASSUME IndInv, NextReport PROVE IndInv'
  OBVIOUS
<1>0. /\ server = "up" /\ step = "next" /\ step' = "in"
      /\ UNCHANGED <<server, Events, tree, file, queue, peerVars>>
  BY DEF NextReport
<1>1. /\ Types' /\ Listener' /\ Connections' /\ Registered' /\ server' = "up"
      /\ DiesOnlyOnReset' /\ \A r : Valid(r) => Valid(r)'
  BY <1>0, Untouched
<1>2. PICK r \in batch : cur' = r /\ batch' = batch \ {r}
  BY DEF NextReport
<1>3. LoopTypes /\ Handling
  BY <1>0, UpInv
<1>4. ASSUME NEW q \in batch, q # r PROVE q.ptr # r.ptr
  <2>1. q \in Report /\ r \in Report /\ Valid(q) /\ Valid(r)
    BY <1>3 DEF LoopTypes, Handling
  <2>2. q.ptr = r.ptr => q.events = r.events
    BY <2>1 DEF Valid
  <2> QED BY <1>4, <2>1, <2>2 DEF Report
<1>5. LoopTypes' /\ Handling'
  BY <1>0, <1>1, <1>2, <1>3, <1>4 DEF LoopTypes, Handling
<1> QED BY <1>1, <1>5 DEF IndInv, Running

\* The two tests of the loop body.
LEMMA TestPreserves == IndInv /\ (TestIn \/ TestOut) => IndInv'
<1> SUFFICES ASSUME IndInv, TestIn \/ TestOut PROVE IndInv'
  OBVIOUS
<1>0. /\ server = "up" /\ step # "next" /\ UNCHANGED batch
      /\ \/ step = "in" /\ step' = "out" /\ UNCHANGED cur
         \/ step = "out" /\ step' = "next"
  BY DEF TestIn, TestOut
<1>1. LoopTypes /\ Handling /\ cur \in Report
  BY <1>0, UpInv DEF LoopTypes
<1>2. LoopTypes'
  BY <1>0, <1>1 DEF LoopTypes
<1>3. CASE UNCHANGED <<server, Events, tree, file, queue, peerVars>>
  <2>1. /\ Types' /\ Listener' /\ Connections' /\ Registered' /\ server' = "up"
        /\ DiesOnlyOnReset' /\ \A r : Valid(r) => Valid(r)'
    BY <1>0, <1>3, Untouched
  <2>2. Handling'
    BY <1>0, <1>1, <2>1 DEF Handling
  <2> QED BY <1>2, <2>1, <2>2 DEF IndInv, Running
<1>4. CASE /\ Callback(cur.ptr)
           /\ step = "in" => Asked("IN")
           /\ step = "out" => Asked("OUT")
  <2>1. Valid(cur) /\ (step = "in" => cur.events = {"IN"})
    BY <1>0, <1>1, <1>4 DEF Handling, Asked, Valid
  <2>2. cur.ptr \in Slots /\ Watched(cur.ptr)
    BY <1>1, <2>1 DEF Report, Valid
  <2>3. \/ server' = "up" /\ Kept(cur.ptr)
        \/ server' = "exit_accept"
        \/ server' = "exit_ctl" /\ \E c \in Clients : peer'[c] = "rst"
    BY <1>0, <1>4, <2>2, CallbackKeeps
  <2>4. CASE server' = "up" /\ Kept(cur.ptr)
    <3>1. \A r \in batch : Valid(r)'
      BY <1>0, <1>1, <2>4 DEF Kept, Handling, LoopTypes
    <3>2. Handling'
      BY <1>0, <1>1, <2>1, <3>1 DEF Handling
    <3> QED BY <1>2, <2>4, <3>2 DEF IndInv, Running, Kept, DiesOnlyOnReset
  <2>5. CASE server' \in {"exit_accept", "exit_ctl"}
    BY <2>3, <2>5 DEF IndInv, Running, DiesOnlyOnReset
  <2> QED BY <2>3, <2>4, <2>5
<1> QED BY <1>3, <1>4 DEF TestIn, TestOut

\* Nothing a client does makes a report stale.
LEMMA ClientPreserves == ASSUME NEW c \in Clients, IndInv, Client(c) PROVE IndInv'
<1>0. server = "up" /\ UNCHANGED <<server, Events, tree, batch, cur, step, file>>
  BY DEF Client, Connect, ClientSend, ClientRead, ClientClose, loopVars
<1>i. /\ LoopTypes /\ Types /\ Listener /\ Connections /\ Registered /\ Handling
  BY <1>0, UpInv
<1>1. LoopTypes' /\ Listener' /\ Registered' /\ server' = "up" /\ DiesOnlyOnReset'
  BY <1>0, <1>i DEF LoopTypes, Listener, Registered, Watched, DiesOnlyOnReset
<1>2. ASSUME Types', Connections', queue # <<>> => queue' # <<>>,
             \A d \in Clients : peer[d] # "idle" =>
               /\ rcv[d] > 0 => rcv'[d] > 0
               /\ peer[d] # "up" => peer'[d] # "up"
               /\ snd[d] < SndBuf => snd'[d] < SndBuf
      PROVE  IndInv'
  <2>1. ASSUME NEW r \in Report, Valid(r) PROVE Valid(r)'
    <3>1. PICK fd : fd = Events[r.ptr].fd
      OBVIOUS
    <3>2. fd = LFD \/ (fd \in Fds /\ fd # LFD /\ file[fd] \in Clients)
      BY <1>0, <2>1, <3>1, ReportSlot
    <3>3. fd \in Fds /\ file[fd] # NoClient => peer[file[fd]] # "idle"
      BY <1>i DEF Connections
    <3>4. Ready(fd) \subseteq Ready(fd)'
      BY <1>0, <1>2, <3>2, <3>3, ReadyKept
    <3> QED BY <1>0, <2>1, <3>1, <3>4, ValidKept
  <2>2. Handling'
    BY <1>0, <1>i, <2>1 DEF Handling, LoopTypes
  <2> QED BY <1>1, <1>2, <2>2 DEF IndInv, Running
<1>3. CASE Connect(c)
  <2>1. /\ peer[c] = "idle" /\ peer' = [peer EXCEPT ![c] = "up"]
        /\ queue' = Append(queue, c) /\ UNCHANGED <<toSend, rcv, snd>>
    BY <1>3 DEF Connect
  <2>2. ~InQ(c, queue) /\ \A fd \in Fds : file[fd] # c
    BY <1>i, <2>1, NoClientAssumption DEF Connections
  <2>3. /\ queue' \in Seq(Clients) /\ Distinct(queue') /\ queue' # <<>>
        /\ \A d : InQ(d, queue') <=> InQ(d, queue) \/ d = c
    BY <1>i, <2>1, <2>2, QueueAppend DEF Types, Connections
  <2>4. /\ peer' \in [Clients -> {"idle", "up", "fin", "rst"}]
        /\ peer'[c] = "up" /\ \A d \in Clients : d # c => peer'[d] = peer[d]
    BY <1>i, <2>1 DEF Types
  <2>5. Types'
    BY <1>0, <1>i, <2>1, <2>3, <2>4 DEF Types
  <2>6. Connections'
    <3>1. \A d \in Clients : peer[d] # "idle" => peer'[d] # "idle"
      BY <2>4
    <3> QED BY <1>0, <1>i, <2>2, <2>3, <2>4, <3>1 DEF Connections, Types
  <2> QED BY <1>2, <2>1, <2>3, <2>4, <2>5, <2>6
<1>4. CASE ClientSend(c) \/ ClientRead(c)
  <2>1. UNCHANGED <<queue, peer>>
    BY <1>4 DEF ClientSend, ClientRead
  <2>2. /\ toSend' \in [Clients -> Nat] /\ rcv' \in [Clients -> Nat] /\ snd' \in [Clients -> Nat]
        /\ \A d \in Clients : rcv[d] > 0 => rcv'[d] > 0
        /\ \A d \in Clients : snd[d] < SndBuf => snd'[d] < SndBuf
    <3>1. CASE ClientSend(c)
      BY <1>i, <3>1 DEF ClientSend, Types
    <3>2. CASE ClientRead(c)
      BY <1>i, <3>2, SizesAssumption DEF ClientRead, Types
    <3> QED BY <1>4, <3>1, <3>2
  <2>3. Types' /\ Connections'
    BY <1>0, <1>i, <2>1, <2>2 DEF Types, Connections
  <2> QED BY <1>2, <2>1, <2>2, <2>3
<1>5. CASE ClientClose(c)
  <2>1. /\ peer[c] # "idle" /\ UNCHANGED <<queue, toSend, rcv, snd>>
        /\ \E e \in {"fin", "rst"} : peer' = [peer EXCEPT ![c] = e]
    BY <1>5 DEF ClientClose
  <2>2. /\ peer' \in [Clients -> {"idle", "up", "fin", "rst"}]
        /\ \A d \in Clients : peer'[d] = "idle" => peer[d] = "idle"
        /\ \A d \in Clients : peer'[d] = "up" => peer[d] = "up"
    BY <1>i, <2>1 DEF Types
  <2>3. Types'
    BY <1>0, <1>i, <2>1, <2>2 DEF Types
  <2>4. Connections'
    BY <1>0, <1>i, <2>1, <2>2 DEF Connections, Types
  <2> QED BY <1>2, <2>1, <2>2, <2>3, <2>4
<1> QED BY <1>3, <1>4, <1>5 DEF Client

\* main() before its loop.
LEMMA BootPreserves == IndInv /\ Boot => IndInv'
<1> SUFFICES ASSUME IndInv, Boot PROVE IndInv'
  OBVIOUS
<1>0. /\ server = "boot"
      /\ UNCHANGED <<Events, batch, cur, step, file, queue, peer, toSend, rcv, snd>>
  BY DEF Boot, loopVars, peerVars
<1>i. LoopTypes /\ Types /\ Listener /\ Connections /\ Fresh
  BY <1>0 DEF IndInv, Running
<1>1. CASE server' = "exit_boot"
  BY <1>1 DEF IndInv, Running, DiesOnlyOnReset
<1>2. CASE server' = "up" /\ tree' = [tree EXCEPT ![LFD] = [ptr |-> MAXEVENT, mask |-> "IN"]]
  <2> DEFINE reg == [ptr |-> MAXEVENT, mask |-> "IN"]
  <2>1. reg \in Regs /\ reg # NoReg /\ reg.ptr = MAXEVENT /\ reg.mask = "IN"
    BY SlotFacts, NoRegAssumption DEF Regs, Masks, Slots
  <2>2. tree' = [tree EXCEPT ![LFD] = reg]
    BY <1>2
  <2> HIDE DEF reg
  <2>3. /\ tree' \in Trees /\ tree'[LFD] = reg
        /\ \A fd \in Fds : fd # LFD => tree'[fd] = tree[fd]
    BY <1>i, <2>1, <2>2 DEF Types, Trees
  <2>4. LoopTypes' /\ Types' /\ Listener' /\ Connections'
    BY <1>0, <1>i, <2>3 DEF LoopTypes, Types, Listener, Connections, Trees
  <2>5. Registered'
    BY <1>0, <1>i, <2>1, <2>3, SlotFacts DEF Fresh, Registered, Watched
  <2>6. Handling'
    BY <1>0, <1>i DEF Fresh, Handling
  <2> QED BY <1>2, <2>4, <2>5, <2>6 DEF IndInv, Running, DiesOnlyOnReset
<1> QED BY <1>1, <1>2 DEF Boot

-----------------------------------------------------------------------------
\* The server starts with nothing watched and nobody connected.
LEMMA IndInvInit == Init => IndInv
<1> SUFFICES ASSUME Init PROVE IndInv
  OBVIOUS
<1>1. Events \in Arrays
  <2>1. /\ [fd |-> LFD, events |-> "IN", status |-> 1, call_back |-> "acceptconnection"] \in SlotData
        /\ [fd |-> 0, events |-> "none", status |-> 0, call_back |-> "NULL"] \in SlotData
    BY SizesAssumption DEF SlotData, LFD
  <2> QED BY <2>1 DEF Init, Arrays
<1>2. Types
  BY <1>1, SizesAssumption DEF Init, Types, Arrays
<1>3. Listener
  BY SlotFacts DEF Init, Listener
<1>4. LoopTypes
  BY DEF Init, LoopTypes
<1>5. Connections
  <2>1. Distinct(<<>>) /\ \A c : ~InQ(c, <<>>)
    BY DEF Distinct, InQ
  <2> QED BY <2>1 DEF Init, Connections
<1>6. Fresh
  BY SlotFacts DEF Init, Fresh, Watched
<1> QED BY <1>2, <1>3, <1>4, <1>5, <1>6 DEF IndInv, Init, DiesOnlyOnReset

\* Every step of the server and of its clients keeps the invariant.
LEMMA IndInvStep == IndInv /\ [Next]_vars => IndInv'
<1> SUFFICES ASSUME IndInv, [Next]_vars PROVE IndInv'
  OBVIOUS
<1>1. CASE UNCHANGED vars
  <2>1. UNCHANGED <<server, Events, tree, batch, cur, step, file, queue, peer, toSend, rcv, snd>>
    BY <1>1 DEF vars, loopVars, peerVars
  <2>2. DiesOnlyOnReset' /\ Running' = Running
    BY <2>1 DEF IndInv, DiesOnlyOnReset, Running
  <2>3. Running => LoopTypes' /\ Types' /\ Listener' /\ Connections'
    BY <2>1 DEF IndInv, LoopTypes, Types, Listener, Connections
  <2>4. server = "boot" => Fresh'
    BY <2>1 DEF IndInv, Fresh, Watched
  <2>5. server = "up" => Registered' /\ Handling'
    <3>1. \A r : Valid(r)' <=> Valid(r)
      BY <2>1 DEF Valid, Watched, Ready, Readable, Writable
    <3>2. server = "up" => Registered'
      BY <2>1 DEF IndInv, Registered, Watched
    <3>3. server = "up" => Handling'
      BY <2>1, <3>1 DEF IndInv, Handling
    <3> QED BY <3>2, <3>3
  <2> QED BY <2>1, <2>2, <2>3, <2>4, <2>5 DEF IndInv
<1>2. CASE Boot \/ Loop
  BY <1>2, BootPreserves, WaitPreserves, NextReportPreserves, TestPreserves DEF Loop
<1>3. CASE \E c \in Clients : Client(c)
  BY <1>3, ClientPreserves
<1> QED BY <1>1, <1>2, <1>3 DEF Next, Idle, Terminated

(***************************************************************************)
(* The inductive invariant holds for every number of clients, slots,       *)
(* descriptors and segments.                                               *)
(***************************************************************************)
THEOREM IndInvAlways == Spec => []IndInv
BY IndInvInit, IndInvStep, PTL DEF Spec

(***************************************************************************)
(* The slot array and the kernel's interest list agree, whatever sequence  *)
(* of setevent, eventadd and eventdel calls led here.                      *)
(***************************************************************************)
THEOREM TreeAgrees == Spec => []RegistrationsAgree
<1>1. ASSUME IndInv, server = "up" PROVE RegistrationsAgree
  <2>0. Types /\ Listener /\ Registered
    BY <1>1, UpInv
  <2>1. ASSUME NEW fd \in Fds \union {LFD}, tree[fd] # NoReg
        PROVE  /\ Watched(tree[fd].ptr) /\ Events[tree[fd].ptr].fd = fd
               /\ fd # LFD => file[fd] # NoClient
    BY <2>0, <2>1 DEF Registered, Listener, Watched
  <2>2. ASSUME NEW s \in Slots, Watched(s)
        PROVE  /\ tree[Events[s].fd] = [ptr |-> s, mask |-> Events[s].events]
               /\ Events[s].events = "OUT" <=> Events[s].call_back = "sendData"
    <3>1. /\ Events[s].fd \in Fds \union {LFD} /\ tree[Events[s].fd] # NoReg
          /\ tree[Events[s].fd].ptr = s /\ tree[Events[s].fd].mask = Events[s].events
      BY <2>0, <2>2, SlotFacts DEF Registered, Listener
    <3>2. tree[Events[s].fd] \in Regs
      BY <2>0, <3>1 DEF Types
    <3>3. tree[Events[s].fd] = [ptr |-> s, mask |-> Events[s].events]
      BY <3>1, <3>2 DEF Regs
    <3> QED BY <2>0, <2>2, <3>3, SlotFacts DEF Registered, Listener
  <2> QED BY <2>1, <2>2 DEF RegistrationsAgree
<1>2. IndInv => RegistrationsAgree
  BY <1>1 DEF RegistrationsAgree
<1> QED BY <1>2, IndInvAlways, PTL

(***************************************************************************)
(* No report that main() has not handled yet goes stale, and no blocking   *)
(* call it leads to would block.                                           *)
(***************************************************************************)
THEOREM NoStaleReport == Spec => []ReportsStillValid
<1>1. IndInv => ReportsStillValid
  BY UpInv DEF Handling, Valid, ReportsStillValid
<1> QED BY <1>1, IndInvAlways, PTL

(***************************************************************************)
(* errExit() after a failed epoll_ctl() ends the server only once some     *)
(* client has reset its connection.                                        *)
(***************************************************************************)
THEOREM ResetOnly == Spec => []DiesOnlyOnReset
<1>1. IndInv => DiesOnlyOnReset
  BY DEF IndInv
<1> QED BY <1>1, IndInvAlways, PTL

-----------------------------------------------------------------------------
(* The reactor implements RequestReply.                                     *)

\* Slot s is that of client c.
ServedBy(c, s) == Watched(s) /\ file[Events[s].fd] = c
Waiting(c) == peer[c] = "idle" \/ InQ(c, queue)
Opened(c) == \E fd \in Fds : file[fd] = c

Words(c) ==
    IF ~Running THEN "closed"
    ELSE IF Waiting(c) THEN "none"
    ELSE IF ~Opened(c) THEN "closed"
    ELSE IF \E s \in ConnSlots : ServedBy(c, s) /\ Events[s].call_back = "sendData" THEN "replying"
    ELSE IF \E s \in ConnSlots : ServedBy(c, s) THEN "reading"
    ELSE "neglected"

\* Phase in these words, before and after a step.
PhaseLaw == Types => \A c \in Clients : Phase(c) = Words(c)

LEMMA PhaseOf == PhaseLaw
<1> SUFFICES ASSUME Types, NEW c \in Clients PROVE Phase(c) = Words(c)
  BY DEF PhaseLaw
<1>1. c \in Range(queue) <=> InQ(c, queue)
  BY DEF Types, Range, InQ
<1>2. c \in Range(file) <=> Opened(c)
  BY DEF Types, Range, Opened
<1> QED BY <1>1, <1>2 DEF Phase, Words, Running, Waiting, ServedBy

LEMMA PhaseOfNext == PhaseLaw'
  BY PhaseOf, PTL

\* A client that has a slot has one, and its callback tells the phase.
SlotLaw ==
    IndInv /\ server = "up" =>
      \A c \in Clients, s \in ConnSlots : ServedBy(c, s) =>
        Phase(c) = IF Events[s].call_back = "sendData" THEN "replying" ELSE "reading"

LEMMA ServedPhase == SlotLaw
<1> SUFFICES ASSUME IndInv, server = "up", NEW c \in Clients, NEW s \in ConnSlots, ServedBy(c, s)
             PROVE  Phase(c) = IF Events[s].call_back = "sendData" THEN "replying" ELSE "reading"
  BY DEF SlotLaw
<1>0. Types /\ Connections /\ Registered
  BY UpInv
<1>1. Running /\ Opened(c) /\ ~Waiting(c)
  BY <1>0, NoClientAssumption DEF Running, Opened, Waiting, ServedBy, Registered, Connections
<1>2. \A r \in ConnSlots : ServedBy(c, r) => r = s
  BY <1>0, NoClientAssumption DEF ServedBy, Registered, Connections
<1> QED BY <1>0, <1>1, <1>2, PhaseOf DEF PhaseLaw, Words

LEMMA ServedPhaseNext == SlotLaw'
  BY ServedPhase, PTL

\* A step that keeps every phase is a stutter of the abstract server.
LEMMA Stutters ==
    ASSUME Running' <=> Running, \A c \in Clients : Phase(c)' = Phase(c)
    PROVE  UNCHANGED Abstract!rrVars
  BY DEF Abstract!rrVars, Running

\* A step that moves one client along a legal edge is a step of the server.
LEMMA Serves ==
    ASSUME NEW c \in Clients, Running, Running',
           <<Phase(c), Phase(c)'>> \in Abstract!Moves,
           \A d \in Clients : d # c => Phase(d)' = Phase(d)
    PROVE  Abstract!Next
<1>1. Abstract!Serve(c)
  BY DEF Abstract!Serve, Running
<1> QED BY <1>1 DEF Abstract!Next

\* The end of the process closes every connection.
LEMMA Halts == ASSUME Running, ~Running' PROVE Abstract!Next
<1>1. \A c \in Clients : Phase(c)' = "closed"
  BY DEF Phase, Running
<1>2. Abstract!Halt
  BY <1>1 DEF Abstract!Halt, Running
<1> QED BY <1>2 DEF Abstract!Next

\* A client whose connection and slot a step leaves alone keeps its phase.
LEMMA SamePhase ==
    ASSUME NEW c \in Clients, Types, Types', Running' <=> Running,
           Waiting(c)' <=> Waiting(c), Opened(c)' <=> Opened(c),
           \A s \in ConnSlots : /\ ServedBy(c, s)' <=> ServedBy(c, s)
                                /\ ServedBy(c, s) => Events'[s].call_back = Events[s].call_back
    PROVE  Phase(c)' = Phase(c)
<1>1. Phase(c) = Words(c) /\ Phase(c)' = Words(c)'
  BY PhaseOf, PhaseOfNext DEF PhaseLaw
<1>2. Words(c)' = Words(c)
  BY DEF Words
<1> QED BY <1>1, <1>2

\* A step that neither opens, closes nor turns a connection.
LEMMA QuietImplements ==
    ASSUME IndInv, IndInv', Running, Running', UNCHANGED <<Events, file>>,
           \A c \in Clients : Waiting(c)' <=> Waiting(c)
    PROVE  UNCHANGED Abstract!rrVars
<1>1. Types /\ Types'
  BY DEF IndInv
<1>2. \A c \in Clients : Phase(c)' = Phase(c)
  BY <1>1, SamePhase DEF Opened, ServedBy, Watched
<1> QED BY <1>2, Stutters

\* recvData and sendData: the connection of c changes sides.
LEMMA TurnedImplements ==
    ASSUME IndInv, IndInv', server = "up", server' = "up", NEW s \in ConnSlots, Watched(s),
           NEW fd, fd = Events[s].fd, NEW c, c = file[fd],
           NEW m, NEW cb, <<Events[s].call_back, cb>> \in
             {<<"recvData", "sendData">>, <<"sendData", "recvData">>},
           Turned(s, fd, c, m, cb)
    PROVE  Abstract!Next
<1>0. /\ Types /\ Types' /\ Connections /\ Registered /\ Running /\ Running'
      /\ fd \in Fds /\ c \in Clients /\ s \in Slots
  BY UpInv, SlotOwner DEF IndInv, Running
<1>1. /\ Events'[s].fd = fd /\ Events'[s].status = 1 /\ Events'[s].call_back = cb
      /\ \A r \in Slots : r # s => Events'[r] = Events[r]
      /\ UNCHANGED <<file, queue, peer>>
  BY DEF Turned, Placed, Holds, SameButSlot
<1>2. ServedBy(c, s) /\ ServedBy(c, s)'
  BY <1>1 DEF ServedBy, Watched
<1>3. /\ Phase(c) = IF Events[s].call_back = "sendData" THEN "replying" ELSE "reading"
      /\ Phase(c)' = IF cb = "sendData" THEN "replying" ELSE "reading"
  BY <1>0, <1>1, <1>2, ServedPhase, ServedPhaseNext DEF SlotLaw
<1>4. <<Phase(c), Phase(c)'>> \in {<<"reading", "replying">>, <<"replying", "reading">>}
  BY <1>3
<1>5. <<Phase(c), Phase(c)'>> \in Abstract!Moves
  BY <1>4 DEF Abstract!Moves, Abstract!Receive, Abstract!Reply
<1>6. ASSUME NEW d \in Clients, d # c PROVE Phase(d)' = Phase(d)
  <2>1. ~ServedBy(d, s) /\ ~ServedBy(d, s)'
    BY <1>1, <1>2, <1>6 DEF ServedBy
  <2>2. \A r \in ConnSlots : r # s => Events'[r] = Events[r]
    BY <1>1, SlotFacts
  <2>3. \A r \in ConnSlots : /\ ServedBy(d, r)' <=> ServedBy(d, r)
                             /\ ServedBy(d, r) => Events'[r].call_back = Events[r].call_back
    BY <1>1, <2>1, <2>2 DEF ServedBy, Watched
  <2>4. (Waiting(d)' <=> Waiting(d)) /\ (Opened(d)' <=> Opened(d))
    BY <1>1 DEF Waiting, Opened
  <2> QED BY <1>0, <2>3, <2>4, SamePhase
<1> QED BY <1>0, <1>5, <1>6, Serves

\* recvData at the end of file: the connection is closed.
LEMMA HungImplements ==
    ASSUME IndInv, IndInv', server = "up", server' = "up", NEW s \in ConnSlots, Watched(s),
           NEW fd, fd = Events[s].fd, NEW c, c = file[fd], Hung(s, fd)
    PROVE  Abstract!Next
<1>0. /\ Types /\ Types' /\ Connections /\ Registered /\ Running /\ Running'
      /\ fd \in Fds /\ c \in Clients /\ s \in Slots
  BY UpInv, SlotOwner DEF IndInv, Running
<1>1. /\ Events'[s].status = 0 /\ file'[fd] = NoClient
      /\ \A r \in Slots : r # s => Events'[r] = Events[r]
      /\ \A gd \in Fds : gd # fd => file'[gd] = file[gd]
      /\ UNCHANGED <<queue, peer>>
  BY DEF Hung, SameButSlot, SameButFile
<1>2. ServedBy(c, s) /\ ~Waiting(c) /\ (Waiting(c)' <=> Waiting(c))
  BY <1>0, <1>1, NoClientAssumption DEF ServedBy, Waiting, Connections
<1>3. ~Opened(c)'
  BY <1>0, <1>1, NoClientAssumption DEF Opened, Connections
<1>4. Phase(c) \in {"reading", "replying"} /\ Phase(c)' = "closed"
  <2>1. Phase(c) \in {"reading", "replying"}
    BY <1>0, <1>2, ServedPhase DEF SlotLaw
  <2>2. Phase(c)' = "closed"
    BY <1>0, <1>2, <1>3, PhaseOfNext DEF PhaseLaw, Words
  <2> QED BY <2>1, <2>2
<1>5. <<Phase(c), Phase(c)'>> \in Abstract!Moves
  BY <1>4 DEF Abstract!Moves, Abstract!Close
<1>6. ASSUME NEW d \in Clients, d # c PROVE Phase(d)' = Phase(d)
  <2>1. ASSUME NEW r \in ConnSlots
        PROVE  /\ ServedBy(d, r)' <=> ServedBy(d, r)
               /\ ServedBy(d, r) => Events'[r].call_back = Events[r].call_back
    <3>1. CASE r = s
      BY <1>1, <1>2, <1>6, <3>1 DEF ServedBy, Watched
    <3>2. CASE r # s
      <4>1. Events'[r] = Events[r]
        BY <1>1, <3>2, SlotFacts
      <4>2. Watched(r) => Events[r].fd \in Fds /\ Events[r].fd # fd
        BY <1>0, <3>2 DEF Registered
      <4> QED BY <1>1, <4>1, <4>2 DEF ServedBy, Watched
    <3> QED BY <3>1, <3>2
  <2>2. Waiting(d)' <=> Waiting(d)
    BY <1>1 DEF Waiting
  <2>3. Opened(d)' <=> Opened(d)
    BY <1>0, <1>1, <1>6, NoClientAssumption DEF Opened
  <2> QED BY <1>0, <2>1, <2>2, <2>3, SamePhase
<1> QED BY <1>0, <1>5, <1>6, Serves

\* acceptconnection: the connection is served, or forgotten.
LEMMA TakenImplements ==
    ASSUME IndInv, IndInv', server = "up", server' = "up",
           NEW fd \in Fds, NEW w \in Clients, Taken(fd, w),
           \/ UNCHANGED <<Events, tree>>
           \/ \E t \in ConnSlots : ~Watched(t) /\ Placed(t, fd, "IN", "recvData")
    PROVE  Abstract!Next
<1>0. Types /\ Types' /\ Connections /\ Registered /\ Running /\ Running'
  BY UpInv DEF IndInv, Running
<1>1. /\ file[fd] = NoClient /\ InQ(w, queue) /\ file'[fd] = w
      /\ \A gd \in Fds : gd # fd => file'[gd] = file[gd]
      /\ \A c : InQ(c, queue') <=> InQ(c, queue) /\ c # w
      /\ UNCHANGED peer
  BY DEF Taken, SameButFile
<1>2. \A s \in ConnSlots : Watched(s) => Events[s].fd \in Fds /\ Events[s].fd # fd
  BY <1>0, <1>1 DEF Registered
<1>3. Waiting(w) /\ ~Waiting(w)' /\ Opened(w)' /\ \A s \in ConnSlots : ~ServedBy(w, s)
  BY <1>0, <1>1, <1>2 DEF Waiting, Opened, ServedBy, Connections
<1>4. Phase(w) = "none"
  BY <1>0, <1>3, PhaseOf DEF PhaseLaw, Words
<1>5. ASSUME NEW d \in Clients, d # w,
             \A s \in ConnSlots : /\ ServedBy(d, s)' <=> ServedBy(d, s)
                                  /\ ServedBy(d, s) => Events'[s].call_back = Events[s].call_back
      PROVE  Phase(d)' = Phase(d)
  <2>1. Waiting(d)' <=> Waiting(d)
    BY <1>1, <1>5 DEF Waiting
  <2>2. Opened(d)' <=> Opened(d)
    BY <1>1, <1>5, NoClientAssumption DEF Opened
  <2> QED BY <1>0, <1>5, <2>1, <2>2, SamePhase
<1>6. CASE UNCHANGED <<Events, tree>>
  <2>1. \A d \in Clients, s \in ConnSlots : ServedBy(d, s)' <=> ServedBy(d, s)
    BY <1>1, <1>2, <1>6 DEF ServedBy, Watched
  <2>2. \A d \in Clients : d # w => Phase(d)' = Phase(d)
    BY <1>5, <1>6, <2>1
  <2>3. Phase(w)' = "neglected"
    BY <1>0, <1>3, <2>1, PhaseOfNext DEF PhaseLaw, Words
  <2>4. <<Phase(w), Phase(w)'>> \in Abstract!Moves
    BY <1>4, <2>3 DEF Abstract!Moves, Abstract!Neglect
  <2> QED BY <1>0, <2>2, <2>4, Serves
<1>7. ASSUME NEW t \in ConnSlots, ~Watched(t), Placed(t, fd, "IN", "recvData")
      PROVE  Abstract!Next
  <2>1. /\ Events'[t].fd = fd /\ Events'[t].status = 1 /\ Events'[t].call_back = "recvData"
        /\ \A r \in ConnSlots : r # t => Events'[r] = Events[r]
    BY <1>7, SlotFacts DEF Placed, Holds, SameButSlot
  <2>2. ServedBy(w, t)'
    BY <1>1, <2>1 DEF ServedBy, Watched
  <2>3. Phase(w)' = "reading"
    BY <2>1, <2>2, ServedPhaseNext DEF SlotLaw
  <2>4. <<Phase(w), Phase(w)'>> \in Abstract!Moves
    BY <1>4, <2>3 DEF Abstract!Moves, Abstract!Open
  <2>5. ASSUME NEW d \in Clients, d # w, NEW r \in ConnSlots
        PROVE  /\ ServedBy(d, r)' <=> ServedBy(d, r)
               /\ ServedBy(d, r) => Events'[r].call_back = Events[r].call_back
    <3>1. CASE r = t
      BY <1>7, <2>2, <2>5, <3>1 DEF ServedBy
    <3>2. CASE r # t
      BY <1>1, <1>2, <2>1, <3>2 DEF ServedBy, Watched
    <3> QED BY <3>1, <3>2
  <2>6. \A d \in Clients : d # w => Phase(d)' = Phase(d)
    BY <1>5, <2>5
  <2> QED BY <1>0, <2>4, <2>6, Serves
<1> QED BY <1>6, <1>7

\* A callback is a step of the abstract server.
LEMMA CallbackImplements ==
    ASSUME IndInv, IndInv', server = "up", NEW s \in Slots, Watched(s), Callback(s)
    PROVE  Abstract!Next
<1>0. Listener /\ Registered /\ Running
  BY UpInv DEF Running
<1>1. CASE server' # "up" /\ server' # "boot"
  BY <1>0, <1>1, Halts DEF Running
<1>2. CASE s = MAXEVENT
  <2>1. acceptconnection
    BY <1>0, <1>2 DEF Callback, Listener
  <2>2. \/ server' = "exit_accept"
        \/ /\ server' = "up"
           /\ \E fd \in Fds, w \in Clients :
                /\ Taken(fd, w)
                /\ \/ UNCHANGED <<Events, tree>>
                   \/ \E t \in ConnSlots : ~Watched(t) /\ Placed(t, fd, "IN", "recvData")
    BY <2>1, AcceptEffect
  <2> QED BY <1>1, <2>2, TakenImplements
<1>3. CASE s \in ConnSlots
  <2>1. PICK fd, c : fd = Events[s].fd /\ c = file[fd]
    OBVIOUS
  <2>3. CASE Events[s].call_back = "recvData" /\ recvData(s)
    <3>1. /\ server' = "up"
          /\ Turned(s, fd, c, "OUT", "sendData") \/ Hung(s, fd)
      BY <1>3, <2>1, <2>3, RecvEffect
    <3> QED BY <1>3, <2>1, <2>3, <3>1, TurnedImplements, HungImplements
  <2>4. CASE Events[s].call_back = "sendData" /\ sendData(s)
    <3>1. \/ server' = "up" /\ Turned(s, fd, c, "IN", "recvData")
          \/ server' = "exit_ctl"
      BY <1>3, <2>1, <2>4, SendEffect
    <3> QED BY <1>1, <1>3, <2>1, <2>4, <3>1, TurnedImplements
  <2> QED BY <1>0, <1>3, <2>3, <2>4 DEF Callback, Registered
<1> QED BY <1>2, <1>3, SlotFacts

\* Every step is a step of the abstract server, or a stutter.
LEMMA StepImplements ==
    ASSUME IndInv, IndInv', [Next]_vars
    PROVE  Abstract!Next \/ UNCHANGED Abstract!rrVars
<1>1. CASE UNCHANGED vars
  BY <1>1, Stutters DEF vars, loopVars, peerVars, Phase, Running, Watched
<1>2. CASE Boot
  <2>1. Running /\ UNCHANGED <<Events, file, queue, peer>>
    BY <1>2 DEF Boot, Running, peerVars
  <2> QED BY <2>1, QuietImplements, Halts DEF Waiting
<1>3. CASE EpollWait \/ NextReport
  <2>1. /\ Running /\ UNCHANGED <<Events, file, queue, peer>>
        /\ UNCHANGED server \/ server' = "exit_wait"
    BY <1>3 DEF EpollWait, NextReport, Running, peerVars
  <2> QED BY <2>1, QuietImplements, Halts DEF Waiting, Running
<1>4. CASE TestIn \/ TestOut
  <2>1. server = "up" /\ step # "next"
    BY <1>4 DEF TestIn, TestOut
  <2>2. CASE UNCHANGED <<server, Events, file, queue, peerVars>>
    BY <2>1, <2>2, QuietImplements DEF Waiting, Running, peerVars
  <2>3. CASE /\ Callback(cur.ptr)
             /\ step = "in" => Asked("IN")
             /\ step = "out" => Asked("OUT")
    <3>1. LoopTypes /\ Handling
      BY <2>1, UpInv
    <3>2. cur \in Report /\ Valid(cur)
      BY <2>1, <2>3, <3>1 DEF LoopTypes, Handling, Asked
    <3>3. cur.ptr \in Slots /\ Watched(cur.ptr)
      BY <3>2 DEF Report, Valid
    <3> QED BY <2>1, <2>3, <3>3, CallbackImplements
  <2> QED BY <1>4, <2>2, <2>3 DEF TestIn, TestOut
<1>5. ASSUME NEW c \in Clients, Client(c) PROVE UNCHANGED Abstract!rrVars
  <2>1. server = "up" /\ UNCHANGED <<server, Events, file>>
    BY <1>5 DEF Client, Connect, ClientSend, ClientRead, ClientClose
  <2>2. Types /\ Connections
    BY <2>1, UpInv
  <2>3. CASE Connect(c)
    <3>1. /\ peer[c] = "idle" /\ peer' = [peer EXCEPT ![c] = "up"] /\ queue' = Append(queue, c)
      BY <2>3 DEF Connect
    <3>2. ~InQ(c, queue)
      BY <2>2, <3>1 DEF Connections
    <3>3. \A d : InQ(d, queue') <=> InQ(d, queue) \/ d = c
      BY <2>2, <3>1, <3>2, QueueAppend DEF Types, Connections
    <3>4. \A d \in Clients : Waiting(d)' <=> Waiting(d)
      BY <2>2, <3>1, <3>3 DEF Waiting, Types
    <3> QED BY <2>1, <3>4, QuietImplements DEF Running
  <2>4. CASE ~Connect(c)
    <3>1. UNCHANGED queue /\ \A d \in Clients : peer'[d] = "idle" <=> peer[d] = "idle"
      BY <1>5, <2>2, <2>4 DEF Client, ClientSend, ClientRead, ClientClose, Types
    <3> QED BY <2>1, <3>1, QuietImplements DEF Waiting, Running
  <2> QED BY <2>3, <2>4
<1> QED BY <1>1, <1>2, <1>3, <1>4, <1>5 DEF Next, Loop, Idle, Terminated

(***************************************************************************)
(* The reactor is a request-reply server for each of its clients, although *)
(* slots and descriptors are reused: the refinement of ImplementsRequest-  *)
(* Reply, for every size.                                                  *)
(***************************************************************************)
THEOREM RequestReplyRefinement == Spec => ImplementsRequestReply
<1>1. Init => Abstract!Init
  <2> SUFFICES ASSUME Init PROVE Abstract!Init
    OBVIOUS
  <2>1. server = "boot" /\ \A c \in Clients : peer[c] = "idle"
    BY DEF Init
  <2>2. \A c \in Clients : Phase(c) = "none"
    BY <2>1 DEF Phase
  <2> QED BY <2>1, <2>2 DEF Abstract!Init
<1>2. IndInv /\ IndInv' /\ [Next]_vars => [Abstract!Next]_(Abstract!rrVars)
  BY StepImplements
<1> QED BY <1>1, <1>2, IndInvAlways, PTL DEF Spec, ImplementsRequestReply, Abstract!Spec
-----------------------------------------------------------------------------
(* Who is turned away.                                                      *)

\* Events has MAXEVENT slots for connections.
LEMMA SlotCount == IsFiniteSet(ConnSlots) /\ Cardinality(ConnSlots) = MAXEVENT
<1>1. IsFiniteSet(Slots) /\ Cardinality(Slots) = MAXEVENT + 1 /\ MAXEVENT \in Slots
  BY SizesAssumption, FS_Interval DEF Slots
<1> QED BY <1>1, SizesAssumption, FS_RemoveElement DEF ConnSlots

\* Only an accept() that finds no descriptor makes the process end that way.
LEMMA AcceptExit ==
    ASSUME [Next]_vars, server = "up", server' = "exit_accept"
    PROVE  FreeFds = {}
<1>1. TestIn \/ TestOut
  BY DEF Next, Loop, Boot, EpollWait, NextReport, Idle, Terminated, vars, Client,
         Connect, ClientSend, ClientRead, ClientClose
<1>2. Callback(cur.ptr)
  BY <1>1 DEF TestIn, TestOut
<1>3. acceptconnection
  BY <1>2 DEF Callback, recvData, sendData, Commit
<1> QED BY <1>3 DEF acceptconnection, Commit

\* When no slot is free, each slot has a client of its own that is being served.
LEMMA FullHouse ==
    ASSUME IndInv, server = "up", FreeSlots = {}
    PROVE  Cardinality(ServedClients) = MAXEVENT
<1>0. Types /\ Connections /\ Registered
  BY UpInv
<1> DEFINE f == [s \in ConnSlots |-> file[Events[s].fd]]
<1>1. ASSUME NEW s \in ConnSlots
      PROVE  Watched(s) /\ f[s] \in ServedClients /\ ServedBy(f[s], s)
  <2>1. Watched(s)
    BY <1>0, SlotFacts DEF FreeSlots, Watched, Types, SlotData, ConnSlots
  <2>2. f[s] \in Clients /\ ServedBy(f[s], s)
    BY <2>1, SlotOwner DEF ServedBy
  <2> QED BY <2>1, <2>2, ServedPhase DEF SlotLaw, ServedClients
<1>2. ASSUME NEW c \in ServedClients PROVE \E s \in ConnSlots : f[s] = c
  <2>1. c \in Clients /\ Words(c) \in {"reading", "replying"}
    BY <1>0, PhaseOf DEF PhaseLaw, ServedClients
  <2> QED BY <2>1 DEF Words, ServedBy
<1>3. ASSUME NEW s \in ConnSlots, NEW t \in ConnSlots, f[s] = f[t] PROVE s = t
  <2>1. file[Events[s].fd] = file[Events[t].fd]
    BY <1>3
  <2>2. /\ Events[s].fd \in Fds /\ Events[t].fd \in Fds /\ file[Events[s].fd] # NoClient
        /\ tree[Events[s].fd].ptr = s /\ tree[Events[t].fd].ptr = t
    BY <1>0, <1>1 DEF Registered
  <2> QED BY <1>0, <2>1, <2>2 DEF Connections
<1>4. f \in [ConnSlots -> ServedClients]
  BY <1>1
<1> HIDE DEF f
<1>5. f \in Bijection(ConnSlots, ServedClients)
  BY <1>2, <1>3, <1>4 DEF Bijection, Injection, Surjection, IsInjective
<1>6. IsFiniteSet(ConnSlots) /\ Cardinality(ConnSlots) = MAXEVENT
  BY SlotCount
<1> QED BY <1>5, <1>6, FS_Bijection DEF ExistsBijection

\* When no descriptor is free and there are more of them than slots, some open
\* connection has no slot.
LEMMA Overflow ==
    ASSUME IndInv, server = "up", FreeFds = {}, MAXEVENT < Cardinality(Fds)
    PROVE  \E c \in Clients : Phase(c) = "neglected"
<1>0. Types /\ Connections /\ Registered
  BY UpInv
<1>1. PICK fd \in Fds : tree[fd] = NoReg
  <2> SUFFICES ASSUME \A fd \in Fds : tree[fd] # NoReg PROVE FALSE
    OBVIOUS
  <2> DEFINE f == [fd \in Fds |-> tree[fd].ptr]
  <2>1. f \in [Fds -> ConnSlots]
    BY <1>0 DEF Registered
  <2>2. \A fd, gd \in Fds : f[fd] = f[gd] => fd = gd
    BY <1>0 DEF Registered
  <2> HIDE DEF f
  <2>3. f \in Injection(Fds, ConnSlots)
    BY <2>1, <2>2 DEF Injection, IsInjective
  <2>4. Cardinality(Fds) =< Cardinality(ConnSlots)
    BY <2>3, SlotCount, FS_Injection
  <2>5. Cardinality(Fds) \in Int
    BY SizesAssumption, FS_Interval DEF Fds
  <2> QED BY <2>4, <2>5, SlotCount, SizesAssumption
<1>2. PICK c : c = file[fd]
  OBVIOUS
<1>3. c \in Clients /\ file[fd] # NoClient
  BY <1>0, <1>1, <1>2 DEF FreeFds, Types
<1>4. Running /\ Opened(c) /\ ~Waiting(c)
  BY <1>0, <1>2, <1>3 DEF Running, Opened, Waiting, Connections
<1>5. ASSUME NEW s \in ConnSlots, ServedBy(c, s) PROVE FALSE
  <2>1. Events[s].fd \in Fds /\ tree[Events[s].fd] # NoReg /\ file[Events[s].fd] = file[fd]
    BY <1>0, <1>2, <1>5 DEF ServedBy, Registered
  <2> QED BY <1>0, <1>1, <1>3, <2>1 DEF Connections
<1> QED BY <1>0, <1>3, <1>4, <1>5, PhaseOf DEF PhaseLaw, Words

\* A connection is forgotten only by acceptconnection, and for want of a slot.
LEMMA Forgotten ==
    ASSUME IndInv, IndInv', [Next]_vars, NEW c \in Clients,
           Phase(c) # "neglected", Phase(c)' = "neglected"
    PROVE  server = "up" /\ FreeSlots = {}
<1>1. Phase(c) = "none"
  <2>1. Abstract!Next \/ UNCHANGED Abstract!rrVars
    BY StepImplements
  <2>2. CASE UNCHANGED Abstract!rrVars
    <3>1. [d \in Clients |-> Phase(d)]' = [d \in Clients |-> Phase(d)]
      BY <2>2 DEF Abstract!rrVars
    <3>2. Phase(c)' = Phase(c)
      BY <3>1
    <3> QED BY <3>2
  <2>3. CASE Abstract!Halt
    <3>1. [d \in Clients |-> Phase(d)]'[c] = "closed"
      BY <2>3 DEF Abstract!Halt
    <3> QED BY <3>1
  <2>4. ASSUME NEW d \in Clients, Abstract!Serve(d) PROVE Phase(c) = "none"
    <3>1. CASE d # c
      BY <2>4, <3>1 DEF Abstract!Serve
    <3>2. CASE d = c
      <4>1. <<Phase(c), Phase(c)'>> \in Abstract!Moves
        BY <2>4, <3>2 DEF Abstract!Serve
      <4> QED BY <4>1 DEF Abstract!Moves, Abstract!Open, Abstract!Receive, Abstract!Reply,
                          Abstract!Close, Abstract!Neglect
    <3> QED BY <3>1, <3>2
  <2> QED BY <2>1, <2>2, <2>3, <2>4 DEF Abstract!Next
<1>2. Running /\ Running'
  BY <1>1 DEF Phase, Running
<1>3. Types /\ Types' /\ Connections /\ Connections'
  BY <1>2 DEF IndInv
<1>4. Waiting(c) /\ ~Waiting(c)'
  BY <1>1, <1>2, <1>3, PhaseOf, PhaseOfNext DEF PhaseLaw, Words
<1>5. ~UNCHANGED <<peer, queue>>
  BY <1>4 DEF Waiting
<1>6. CASE \E d \in Clients : Client(d)
  <2>1. PICK d \in Clients : Client(d)
    BY <1>6
  <2>2. CASE Connect(d)
    <3>1. ~InQ(d, queue)
      BY <1>3, <2>2 DEF Connections, Connect
    <3>2. InQ(c, queue) \/ c = d => InQ(c, queue')
      BY <1>3, <2>2, <3>1, QueueAppend DEF Connect, Types, Connections
    <3>3. c # d => peer'[c] = peer[c]
      BY <1>3, <2>2 DEF Connect, Types
    <3> QED BY <1>4, <3>2, <3>3 DEF Waiting
  <2>3. CASE ~Connect(d)
    <3>1. UNCHANGED queue /\ (peer'[c] = "idle" <=> peer[c] = "idle")
      BY <1>3, <2>1, <2>3 DEF Client, ClientSend, ClientRead, ClientClose, Types
    <3> QED BY <1>4, <3>1 DEF Waiting
  <2> QED BY <2>2, <2>3
<1>7. CASE ~(\E d \in Clients : Client(d))
  <2>1. TestIn \/ TestOut
    BY <1>5, <1>7 DEF Next, Loop, Boot, EpollWait, NextReport, Idle, Terminated, vars, peerVars
  <2>2. server = "up" /\ Callback(cur.ptr)
    BY <1>5, <2>1 DEF TestIn, TestOut, peerVars
  <2>3. acceptconnection
    BY <1>5, <2>2 DEF Callback, recvData, sendData
  <2>4. PICK fd \in Fds, w \in Clients :
          /\ Taken(fd, w)
          /\ \/ FreeSlots = {}
             \/ \E t \in ConnSlots : Placed(t, fd, "IN", "recvData")
    BY <1>2, <2>2, <2>3, AcceptEffect DEF Running
  <2>5. c = w
    BY <1>4, <2>4 DEF Taken, Waiting
  <2>6. ASSUME NEW t \in ConnSlots, Placed(t, fd, "IN", "recvData") PROVE FALSE
    <3>1. ServedBy(c, t)'
      BY <2>4, <2>5, <2>6 DEF ServedBy, Watched, Placed, Holds, Taken
    <3>2. server' = "up"
      BY <1>2, <2>2, <2>3, AcceptEffect DEF Running
    <3> QED BY <3>1, <3>2, ServedPhaseNext DEF SlotLaw
  <2> QED BY <2>2, <2>4, <2>6
<1> QED BY <1>6, <1>7

(***************************************************************************)
(* A connection is turned away only while MAXEVENT clients are served, and *)
(* with more descriptors than slots the process runs out of descriptors    *)
(* only because of connections turned away: no slot and no descriptor is   *)
(* ever lost, for every number of clients, slots and descriptors.          *)
(***************************************************************************)
THEOREM NoSlotLost == Spec => TurnedAwayOnlyWhenFull
<1> DEFINE Fair == /\ (\E c \in Clients : Phase(c) # "neglected" /\ Phase(c)' = "neglected") =>
                        Cardinality(ServedClients) = MAXEVENT
                   /\ server' = "exit_accept" /\ server = "up" /\ MAXEVENT < Cardinality(Fds) =>
                        \E c \in Clients : Phase(c) = "neglected"
<1>1. ASSUME IndInv, IndInv', [Next]_vars PROVE Fair
  <2>1. ASSUME NEW c \in Clients, Phase(c) # "neglected", Phase(c)' = "neglected"
        PROVE  Cardinality(ServedClients) = MAXEVENT
    BY <1>1, <2>1, Forgotten, FullHouse
  <2>2. ASSUME server' = "exit_accept", server = "up" PROVE FreeFds = {}
    BY <1>1, <2>2, AcceptExit
  <2> QED BY <1>1, <2>1, <2>2, Overflow
<1> QED BY <1>1, IndInvAlways, PTL DEF Spec, TurnedAwayOnlyWhenFull
=============================================================================
