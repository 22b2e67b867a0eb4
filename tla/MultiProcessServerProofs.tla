---------------------- MODULE MultiProcessServerProofs ----------------------
(***************************************************************************)
(* multi_processor_server.c for every number of clients, processes and     *)
(* segments: although fork() copies descriptors, no connection is read by  *)
(* two processes, only the first one misses descriptor 0, and no zombie is *)
(* without a SIGCHLD that will have it reaped.                             *)
(***************************************************************************)
EXTENDS MultiProcessServer, AcceptQueueLemmas, FiniteSetTheorems

Fields == {"pc", "parent", "fd0", "listening", "held"}
Dead == {"none", "zombie"}
Children == Procs \ {Server}

\* A client whose connection no process has accepted.
New(c) == peer[c] = "idle" \/ InQ(c, queue)

Types ==
    /\ DOMAIN proc = Procs
    /\ \A p \in Procs :
         /\ DOMAIN proc[p] = Fields
         /\ proc[p].fd0 \in Clients \union {Stdin, Closed}
         /\ proc[p].held \subseteq Clients
    /\ peer \in [Clients -> {"idle", "up", "fin", "rst"}]
    /\ queue \in Seq(Clients)

\* The server never reads and every other process reads first: when it is back
\* in the loop of main(), descriptor 0 and the listening descriptor are closed.
Roles ==
    /\ proc[Server].pc \in Dead \union {"boot", "accept", "fork", "parent"}
    /\ proc[Server].pc \in {"boot", "accept"} => proc[Server].fd0 \notin Clients
    /\ \A p \in Children :
         /\ proc[p].pc \in Dead \union {"accept", "fork", "parent", "child", "read", "write"}
         /\ proc[p].pc \in Dead \union {"accept", "fork", "parent"} => proc[p].fd0 = Closed
         /\ proc[p].pc \notin Dead \union {"child"} => ~proc[p].listening

\* A connection on descriptor 0 is there in one child, and in none while the
\* server is about to fork() for it.
Private ==
    /\ \A p, q \in Children : proc[p].fd0 = proc[q].fd0 /\ proc[p].fd0 \in Clients => p = q
    /\ proc[Server].pc = "fork" /\ proc[Server].fd0 \in Clients =>
         \A p \in Children : proc[p].fd0 # proc[Server].fd0

\* There is at most one connection on another descriptor, on descriptor 0 of
\* nobody, and the server that lives still has it.
Missed ==
    /\ \A p, q \in Procs : \A c \in proc[p].held : \A d \in proc[q].held : c = d
    /\ \A p, q \in Procs : proc[q].fd0 \notin proc[p].held
    /\ Alive(Server) => \A p \in Procs : proc[p].held \subseteq proc[Server].held
    /\ proc[Server].pc \in {"boot", "accept"} /\ proc[Server].fd0 = Stdin =>
         \A p \in Procs : proc[p].held = {}

\* A connection nobody has accepted is nobody's.
Unaccepted ==
    /\ Distinct(queue)
    /\ \A c \in Clients : InQ(c, queue) => peer[c] # "idle"
    /\ \A c \in Clients : New(c) =>
         \A p \in Procs : proc[p].fd0 # c /\ c \notin proc[p].held

IndInv == Types /\ Roles /\ Private /\ Missed /\ Unaccepted

-----------------------------------------------------------------------------
\* The start: the server alone, with standard input on descriptor 0.
LEMMA IndInvInit == Init => IndInv
<1> SUFFICES ASSUME Init PROVE IndInv
  OBVIOUS
<1> DEFINE first == [NoProcess EXCEPT !.pc = "boot", !.fd0 = Stdin]
<1>0. Server \in Procs /\ Stdin # Closed /\ Stdin \notin Clients /\ Closed \notin Clients
  BY SizesAssumption, DescriptorsAssumption DEF Procs, Server
<1>1. /\ DOMAIN NoProcess = Fields /\ NoProcess.pc = "none" /\ NoProcess.fd0 = Closed
      /\ NoProcess.held = {}
  BY DEF NoProcess, Fields
<1>2. /\ DOMAIN first = Fields /\ first.pc = "boot" /\ first.fd0 = Stdin
      /\ first.held = {}
  BY <1>1 DEF Fields
<1> HIDE DEF first
<1>3. /\ DOMAIN proc = Procs /\ proc[Server] = first
      /\ \A p \in Children : proc[p] = NoProcess
  BY <1>0 DEF Init, first, Children
<1>4. Len(queue) = 0 /\ queue \in Seq(Clients)
  BY DEF Init
<1>5. \A p \in Procs : p = Server \/ p \in Children
  BY DEF Children
<1>6. Types
  BY <1>0, <1>1, <1>2, <1>3, <1>4, <1>5 DEF Types, Init
<1>7. Roles
  BY <1>0, <1>1, <1>2, <1>3 DEF Roles, Dead
<1>8. Private
  BY <1>0, <1>1, <1>2, <1>3 DEF Private
<1>9. Missed
  BY <1>0, <1>1, <1>2, <1>3, <1>5 DEF Missed
<1>10. Unaccepted
  BY <1>0, <1>1, <1>2, <1>3, <1>4, <1>5 DEF Unaccepted, InQ, Distinct
<1> QED BY <1>6, <1>7, <1>8, <1>9, <1>10 DEF IndInv

\* Process q is as it was, but for its parent, or gone.
Fading(q) ==
    /\ DOMAIN proc'[q] = Fields
    /\ \/ /\ proc'[q].pc = proc[q].pc /\ proc'[q].fd0 = proc[q].fd0
          /\ proc'[q].held = proc[q].held /\ proc'[q].listening = proc[q].listening
       \/ /\ proc'[q].pc \in Dead /\ proc'[q].fd0 = Closed
          /\ proc'[q].held = {}

\* An end and the reaping of the dead take nothing from those who stay.
LEMMA FadingKeeps ==
    ASSUME IndInv, DOMAIN proc' = Procs, \A q \in Procs : Fading(q),
           UNCHANGED <<queue, peer>>
    PROVE  IndInv'
<1>0. Server \in Procs /\ Stdin # Closed /\ Stdin \notin Clients /\ Closed \notin Clients
  BY SizesAssumption, DescriptorsAssumption DEF Procs, Server
<1>1. Types'
  BY <1>0 DEF IndInv, Types, Fading, Procs
<1>2. Roles'
  BY <1>0 DEF IndInv, Roles, Fading, Dead, Children, Procs
<1>3. Private'
  BY <1>0 DEF IndInv, Private, Fading, Dead, Children, Procs
<1>4. Missed'
  <2>1. \A p \in Procs : proc'[p].held \subseteq proc[p].held
    BY DEF Fading
  <2>2. \A p \in Procs : proc'[p].fd0 = Closed \/ proc'[p].fd0 = proc[p].fd0
    BY DEF Fading
  <2>3. \A p \in Procs : Closed \notin proc[p].held
    BY <1>0 DEF IndInv, Types
  <2>4. proc'[Server].pc \notin Dead => proc'[Server].held = proc[Server].held
          /\ proc'[Server].pc = proc[Server].pc /\ proc'[Server].fd0 = proc[Server].fd0
    BY <1>0 DEF Fading
  <2>5. (Procs = Procs') /\ "boot" \notin Dead /\ "accept" \notin Dead
    BY DEF Procs, Dead
  <2>6. \A p, q \in Procs : \A c \in proc'[p].held : \A d \in proc'[q].held : c = d
    BY <2>1 DEF IndInv, Missed
  <2>7. \A p, q \in Procs : proc'[q].fd0 \notin proc'[p].held
    BY <2>1, <2>2, <2>3 DEF IndInv, Missed
  <2>8. Alive(Server)' => \A p \in Procs : proc'[p].held \subseteq proc'[Server].held
    BY <2>1, <2>4 DEF IndInv, Missed, Alive, Dead, Server
  <2>9. proc'[Server].pc \in {"boot", "accept"} /\ proc'[Server].fd0 = Stdin =>
          \A p \in Procs : proc'[p].held = {}
    BY <2>1, <2>4, <2>5 DEF IndInv, Missed
  <2> QED BY <2>5, <2>6, <2>7, <2>8, <2>9 DEF Missed, Server
<1>5. Unaccepted'
  BY <1>0 DEF IndInv, Unaccepted, Fading, New, InQ, Distinct, Procs
<1> QED BY <1>1, <1>2, <1>3, <1>4, <1>5 DEF IndInv

\* exit(): the process and the dead among its children are gone.
LEMMA ExitFades ==
    ASSUME Types, NEW p \in Procs, Exit(p)
    PROVE  DOMAIN proc' = Procs /\ \A q \in Procs : Fading(q)
<1> DEFINE parent == proc[p].parent
           zombie == [NoProcess EXCEPT !.pc = "zombie", !.parent = parent]
           orphan(q) == [proc[q] EXCEPT !.parent = Orphan]
<1>1. /\ DOMAIN NoProcess = Fields /\ NoProcess.pc = "none" /\ NoProcess.fd0 = Closed
      /\ NoProcess.held = {}
  BY DEF NoProcess, Fields
<1>2. /\ DOMAIN zombie = Fields /\ zombie.pc = "zombie" /\ zombie.fd0 = Closed
      /\ zombie.held = {}
  BY <1>1 DEF Fields
<1>3. ASSUME NEW q \in Procs
      PROVE  /\ DOMAIN orphan(q) = Fields /\ orphan(q).pc = proc[q].pc
             /\ orphan(q).fd0 = proc[q].fd0 /\ orphan(q).held = proc[q].held
             /\ orphan(q).listening = proc[q].listening
  BY DEF Types, Fields
<1>4. /\ DOMAIN proc' = Procs
      /\ \A q \in Procs : proc'[q] \in {NoProcess, zombie, orphan(q), proc[q]}
  BY DEF Exit
<1> HIDE DEF zombie, orphan
<1> QED BY <1>1, <1>2, <1>3, <1>4 DEF Fading, Dead, Types

\* recycle(): the dead children are gone.
LEMMA recycleFades ==
    ASSUME Types, NEW p \in Procs, recycle(p)
    PROVE  DOMAIN proc' = Procs /\ \A q \in Procs : Fading(q)
<1>1. /\ DOMAIN NoProcess = Fields /\ NoProcess.pc = "none" /\ NoProcess.fd0 = Closed
      /\ NoProcess.held = {}
  BY DEF NoProcess, Fields
<1>2. /\ DOMAIN proc' = Procs
      /\ \A q \in Procs : proc'[q] \in {NoProcess, proc[q]}
  BY DEF recycle
<1> QED BY <1>1, <1>2 DEF Fading, Dead, Types

\* What Set() leaves alone.
LEMMA SetOne ==
    ASSUME Types, NEW p \in Procs, NEW r, Set(p, r)
    PROVE  /\ DOMAIN proc' = Procs /\ proc'[p] = r
           /\ \A q \in Procs : q # p => proc'[q] = proc[q]
  BY DEF Types, Set

\* A process goes on with the descriptors it has, or without descriptor 0.
LEMMA MoveKeeps ==
    ASSUME IndInv, NEW p \in Procs, NEW r, Set(p, r), UNCHANGED <<queue, peer>>,
           DOMAIN r = Fields, r.held = proc[p].held, r.fd0 \in {proc[p].fd0, Closed},
           Roles', proc[p].pc \notin Dead,
           p = Server /\ r.pc = "fork" => r.fd0 \notin Clients,
           p = Server /\ r.pc \in {"boot", "accept"} /\ r.fd0 = Stdin =>
               proc[p].pc \in {"boot", "accept"}
    PROVE  IndInv'
<1>0. Server \in Procs /\ Stdin # Closed /\ Stdin \notin Clients /\ Closed \notin Clients
  BY SizesAssumption, DescriptorsAssumption DEF Procs, Server
<1>1. /\ DOMAIN proc' = Procs /\ proc'[p] = r
      /\ \A q \in Procs : q # p => proc'[q] = proc[q]
  BY SetOne DEF IndInv
<1>2. /\ \A q \in Procs : proc'[q].held = proc[q].held
      /\ \A q \in Procs : proc'[q].fd0 \in {proc[q].fd0, Closed}
  BY <1>1
<1>3. Types'
  BY <1>0, <1>1 DEF IndInv, Types, Procs
<1>4. Private'
  <2>1. \A s, q \in Children :
          proc'[s].fd0 = proc'[q].fd0 /\ proc'[s].fd0 \in Clients => s = q
    BY <1>0, <1>2 DEF IndInv, Private, Children
  <2>2. proc'[Server].pc = "fork" /\ proc'[Server].fd0 \in Clients =>
          \A q \in Children : proc'[q].fd0 # proc'[Server].fd0
    BY <1>0, <1>1, <1>2 DEF IndInv, Private, Children
  <2> QED BY <2>1, <2>2 DEF Private, Children, Procs, Server
<1>5. Missed'
  <2>1. \A q \in Procs : Closed \notin proc[q].held
    BY <1>0 DEF IndInv, Types
  <2>2. Alive(Server)' => Alive(Server)
    BY <1>0, <1>1 DEF Alive, Dead, Server
  <2>3. \A s, q \in Procs : proc'[q].fd0 \notin proc'[s].held
    BY <1>2, <2>1 DEF IndInv, Missed
  <2>4. proc'[Server].pc \in {"boot", "accept"} /\ proc'[Server].fd0 = Stdin =>
          \A q \in Procs : proc'[q].held = {}
    <3> SUFFICES ASSUME proc'[Server].pc \in {"boot", "accept"}, proc'[Server].fd0 = Stdin
                 PROVE  \A q \in Procs : proc'[q].held = {}
      OBVIOUS
    <3>1. proc[Server].fd0 = Stdin
      BY <1>0, <1>2
    <3>2. proc[Server].pc \in {"boot", "accept"}
      BY <1>0, <1>1
    <3> QED BY <1>2, <3>1, <3>2 DEF IndInv, Missed
  <2> QED BY <1>0, <1>2, <2>2, <2>3, <2>4 DEF IndInv, Missed, Procs, Server
<1>6. Unaccepted'
  BY <1>0, <1>2 DEF IndInv, Unaccepted, New, InQ, Distinct, Procs
<1> QED BY <1>3, <1>4, <1>5, <1>6 DEF IndInv

\* The roles after a step of one process.
LEMMA RolesAfter ==
    ASSUME IndInv, NEW p \in Procs, NEW r, Set(p, r),
           p = Server => /\ r.pc \in {"accept", "fork", "parent"}
                         /\ r.pc = "accept" => r.fd0 \notin Clients,
           p # Server => /\ r.pc \in {"accept", "fork", "read", "write"}
                         /\ r.pc \in {"accept", "fork"} => r.fd0 = Closed
                         /\ ~r.listening
    PROVE  Roles'
<1>0. Server \in Procs
  BY SizesAssumption DEF Procs, Server
<1>1. proc'[p] = r /\ \A q \in Procs : q # p => proc'[q] = proc[q]
  BY SetOne DEF IndInv
<1> QED BY <1>0, <1>1 DEF IndInv, Roles, Dead, Children, Procs, Server

-----------------------------------------------------------------------------
(* One lemma per operation of the server.                                   *)

\* Socket(), Bind() and Listen().
LEMMA BootKeeps ==
    ASSUME IndInv, NEW p \in Procs, Boot(p)
    PROVE  IndInv'
<1>1. ASSUME Exit(p) PROVE IndInv'
  BY <1>1, ExitFades, FadingKeeps DEF IndInv, Boot, peerVars
<1> DEFINE r == [proc[p] EXCEPT !.pc = "accept", !.listening = TRUE]
<1>2. ASSUME Set(p, r) PROVE IndInv'
  <2>1. /\ DOMAIN r = Fields /\ r.pc = "accept" /\ r.fd0 = proc[p].fd0
        /\ r.held = proc[p].held
    BY DEF IndInv, Types, Fields
  <2>2. p = Server /\ proc[p].fd0 \notin Clients
    BY DEF Boot, IndInv, Roles, Dead, Children
  <2> HIDE DEF r
  <2>3. Roles'
    BY <1>2, <2>1, <2>2, RolesAfter
  <2> QED BY <1>2, <2>1, <2>2, <2>3, MoveKeeps DEF Boot, peerVars, Dead
<1> QED BY <1>1, <1>2 DEF Boot

\* accept() by a process that does not listen any more.
LEMMA AcceptFailsKeeps ==
    ASSUME IndInv, NEW p \in Procs, proc[p].pc = "accept",
           Set(p, [proc[p] EXCEPT !.pc = "fork"]), UNCHANGED <<queue, peer>>
    PROVE  IndInv'
<1> DEFINE r == [proc[p] EXCEPT !.pc = "fork"]
<1>1. /\ DOMAIN r = Fields /\ r.pc = "fork" /\ r.fd0 = proc[p].fd0
      /\ r.held = proc[p].held /\ r.listening = proc[p].listening
  BY DEF IndInv, Types, Fields
<1>2. Set(p, r)
  OBVIOUS
<1> HIDE DEF r
<1>3. p = Server => proc[p].fd0 \notin Clients
  BY DEF IndInv, Roles
<1>4. p # Server => proc[p].fd0 = Closed /\ ~proc[p].listening
  BY DEF IndInv, Roles, Children, Dead
<1>5. Roles'
  BY <1>1, <1>2, <1>3, <1>4, RolesAfter
<1> QED BY <1>1, <1>2, <1>3, <1>5, MoveKeeps DEF Dead

\* accept() by the server: the connection is nobody's yet, and goes to
\* descriptor 0 unless standard input is there, which only the first meets.
LEMMA AcceptTakesKeeps ==
    ASSUME IndInv, NEW p \in Procs, Accept(p), proc[p].listening, queue # <<>>,
           queue' = Tail(queue)
    PROVE  IndInv'
<1> DEFINE c == Head(queue)
           r == IF proc[p].fd0 = Closed THEN [proc[p] EXCEPT !.pc = "fork", !.fd0 = c]
                ELSE [proc[p] EXCEPT !.pc = "fork", !.held = @ \union {c}]
<1>0. Server \in Procs /\ Stdin # Closed /\ Stdin \notin Clients /\ Closed \notin Clients
  BY SizesAssumption, DescriptorsAssumption DEF Procs, Server
<1>1. p = Server /\ proc[p].fd0 \in {Stdin, Closed} /\ peer' = peer
  BY <1>0 DEF Accept, IndInv, Types, Roles, Children, Dead, peerVars
<1>2. /\ c \in Clients /\ InQ(c, queue) /\ queue' \in Seq(Clients) /\ Distinct(queue')
      /\ \A d : InQ(d, queue') => InQ(d, queue) /\ d # c
  BY QueueHead DEF IndInv, Types, Unaccepted
<1>3. \A q \in Procs : proc[q].fd0 # c /\ c \notin proc[q].held
  BY <1>2 DEF IndInv, Unaccepted, New
<1>4. /\ DOMAIN r = Fields /\ r.pc = "fork"
      /\ proc[p].fd0 = Closed => r.fd0 = c /\ r.held = proc[p].held
      /\ proc[p].fd0 # Closed => r.fd0 = Stdin /\ r.held = proc[p].held \union {c}
  BY <1>1 DEF IndInv, Types, Fields
<1>5. Set(p, r)
  BY DEF Accept
<1> HIDE DEF c, r
<1>6. /\ DOMAIN proc' = Procs /\ proc'[Server] = r
      /\ \A q \in Procs : q # Server => proc'[q] = proc[q]
  BY <1>1, <1>5, SetOne DEF IndInv
<1>7. Types'
  <2>1. \A q \in Procs : /\ DOMAIN proc'[q] = Fields
                         /\ proc'[q].fd0 \in Clients \union {Stdin, Closed}
                         /\ proc'[q].held \subseteq Clients
    BY <1>0, <1>1, <1>2, <1>4, <1>6 DEF IndInv, Types
  <2> QED BY <1>1, <1>2, <1>6, <2>1 DEF IndInv, Types, Procs
<1>8. Roles'
  BY <1>0, <1>4, <1>6 DEF IndInv, Roles, Dead, Children, Procs, Server
<1>9. Private'
  BY <1>0, <1>1, <1>3, <1>4, <1>6 DEF IndInv, Private, Children, Procs, Server
<1>10. Missed'
  <2>1. CASE proc[p].fd0 = Closed
    <3>1. \A q \in Procs : proc'[q].held = proc[q].held
      BY <1>1, <1>4, <1>6, <2>1
    <3>2. \A q \in Procs : proc'[q].fd0 \in {proc[q].fd0, c}
      BY <1>1, <1>4, <1>6, <2>1
    <3>3. \A s, q \in Procs : proc'[q].fd0 \notin proc'[s].held
      BY <1>3, <3>1, <3>2 DEF IndInv, Missed
    <3>4. Alive(Server) /\ proc'[Server].pc = "fork"
      BY <1>1, <1>4, <1>6 DEF Accept, Alive
    <3> QED BY <1>0, <3>1, <3>3, <3>4 DEF IndInv, Missed, Procs, Server
  <2>2. CASE proc[p].fd0 # Closed
    <3>1. \A q \in Procs : proc[q].held = {}
      BY <1>1, <2>2 DEF IndInv, Missed, Accept
    <3>2. proc'[Server].held = {c} /\ \A q \in Procs : q # Server => proc'[q].held = {}
      BY <1>0, <1>1, <1>4, <1>6, <2>2, <3>1
    <3>3. \A q \in Procs : proc'[q].fd0 # c
      BY <1>0, <1>1, <1>2, <1>3, <1>4, <1>6, <2>2
    <3> QED BY <1>4, <1>6, <3>2, <3>3 DEF Missed, Procs, Server
  <2> QED BY <2>1, <2>2
<1>11. Unaccepted'
  <2>1. ASSUME NEW d \in Clients, New(d)' PROVE d # c /\ New(d)
    BY <1>1, <1>2, <2>1 DEF New, IndInv, Unaccepted
  <2>2. ASSUME NEW d \in Clients, New(d)', NEW q \in Procs
        PROVE  proc'[q].fd0 # d /\ d \notin proc'[q].held
    <3>1. d # c /\ proc[q].fd0 # d /\ d \notin proc[q].held
      BY <2>1, <2>2 DEF IndInv, Unaccepted
    <3> QED BY <1>0, <1>1, <1>4, <1>6, <3>1
  <2> QED BY <1>1, <1>2, <2>2 DEF IndInv, Unaccepted, Procs
<1> QED BY <1>7, <1>8, <1>9, <1>10, <1>11 DEF IndInv

\* fork(): the child is a copy of its parent.  A connection that the server
\* has just accepted is then in the child, and on its way out of the server.
LEMMA ForkKeeps ==
    ASSUME IndInv, NEW p \in Procs, Fork(p)
    PROVE  IndInv'
<1>0. Server \in Procs /\ Stdin # Closed /\ Stdin \notin Clients /\ Closed \notin Clients
  BY SizesAssumption, DescriptorsAssumption DEF Procs, Server
<1>1. ASSUME FreePids = {} PROVE IndInv'
  BY <1>1, ExitFades, FadingKeeps DEF IndInv, Fork, peerVars
<1>2. ASSUME FreePids # {} PROVE IndInv'
  <2> DEFINE m == Min(FreePids)
             parent == [proc[p] EXCEPT !.pc = "parent"]
             child == [proc[p] EXCEPT !.pc = "child", !.parent = p]
  <2>1. FreePids \in SUBSET Nat
    BY SizesAssumption DEF FreePids, Procs
  <2>2. m \in FreePids
    BY <1>2, <2>1, LeastExists
  <2>3. m \in Children /\ m # p /\ proc[m].pc = "none" /\ proc[m].fd0 = Closed
    BY <2>2 DEF FreePids, Children, Fork, IndInv, Roles, Dead
  <2>4. /\ DOMAIN parent = Fields /\ parent.pc = "parent" /\ parent.fd0 = proc[p].fd0
        /\ parent.held = proc[p].held /\ parent.listening = proc[p].listening
    BY DEF IndInv, Types, Fields
  <2>5. /\ DOMAIN child = Fields /\ child.pc = "child" /\ child.fd0 = proc[p].fd0
        /\ child.held = proc[p].held
    BY DEF IndInv, Types, Fields
  <2>6. /\ DOMAIN proc' = Procs /\ proc'[p] = parent /\ proc'[m] = child
        /\ \A q \in Procs : q # p /\ q # m => proc'[q] = proc[q]
        /\ queue' = queue /\ peer' = peer
    BY <1>2, <2>3 DEF Fork, IndInv, Types, Children, peerVars
  <2>7. m \in Procs /\ \A q \in Procs : q = p \/ q = m \/ (q # p /\ q # m)
    BY <2>3 DEF Children
  <2> HIDE DEF m, parent, child
  <2>8. /\ \A q \in Procs : q # m =>
             /\ proc'[q].fd0 = proc[q].fd0 /\ proc'[q].held = proc[q].held
             /\ proc'[q].listening = proc[q].listening
        /\ proc'[m].fd0 = proc[p].fd0 /\ proc'[m].held = proc[p].held
    BY <2>4, <2>5, <2>6, <2>7
  <2>9. Types'
    BY <2>4, <2>5, <2>6, <2>7, <2>8 DEF IndInv, Types, Procs
  <2>10. Roles'
    <3>1. \A q \in Children : q # m => proc'[q].pc \in {proc[q].pc, "parent"}
      BY <2>4, <2>6, <2>7 DEF Children
    <3>2. p \in Children => proc[p].fd0 = Closed /\ ~proc[p].listening
      BY DEF Fork, IndInv, Roles, Dead
    <3>3. /\ proc'[Server].pc \in Dead \union {"boot", "accept", "fork", "parent"}
          /\ proc'[Server].pc \in {"boot", "accept"} => proc'[Server].fd0 \notin Clients
      BY <1>0, <2>3, <2>4, <2>6, <2>8 DEF IndInv, Roles, Children
    <3>4. ASSUME NEW q \in Children
          PROVE  /\ proc'[q].pc \in Dead \union
                       {"accept", "fork", "parent", "child", "read", "write"}
                 /\ proc'[q].pc \in Dead \union {"accept", "fork", "parent"} =>
                       proc'[q].fd0 = Closed
                 /\ proc'[q].pc \notin Dead \union {"child"} => ~proc'[q].listening
      <4>1. CASE q = m
        BY <2>5, <2>6, <4>1 DEF Dead
      <4>2. CASE q = p
        BY <2>4, <2>6, <3>2, <4>2 DEF Dead
      <4>3. CASE q # m /\ q # p
        BY <2>6, <3>4, <4>3 DEF IndInv, Roles, Children
      <4> QED BY <4>1, <4>2, <4>3
    <3> QED BY <3>3, <3>4 DEF Roles, Children, Procs, Server, Dead
  <2>11. Private'
    <3>1. ASSUME proc[p].fd0 \in Clients
          PROVE  p = Server /\ \A q \in Children : proc[q].fd0 # proc[p].fd0
      BY <1>0, <3>1 DEF Fork, IndInv, Roles, Private, Children
    <3>2. ASSUME NEW s \in Children, NEW q \in Children,
                 proc'[s].fd0 = proc'[q].fd0, proc'[s].fd0 \in Clients
          PROVE  s = q
      BY <2>8, <3>1, <3>2 DEF IndInv, Private, Children
    <3>3. proc'[Server].pc = "fork" => proc'[Server] = proc[Server] /\ p # Server
      BY <1>0, <2>3, <2>4, <2>6 DEF Children
    <3>4. proc'[Server].pc = "fork" /\ proc'[Server].fd0 \in Clients =>
            \A q \in Children : proc'[q].fd0 # proc'[Server].fd0
      BY <1>0, <2>8, <3>1, <3>3 DEF IndInv, Private, Children
    <3> QED BY <3>2, <3>4 DEF Private, Children, Procs, Server
  <2>12. Missed'
    <3>1. \A q \in Procs : \E s \in Procs :
            proc'[q].fd0 = proc[s].fd0 /\ proc'[q].held = proc[s].held
      BY <2>8
    <3>2. \A s, q \in Procs : \A c \in proc'[s].held : \A d \in proc'[q].held : c = d
      BY <3>1 DEF IndInv, Missed
    <3>3. \A s, q \in Procs : proc'[q].fd0 \notin proc'[s].held
      BY <3>1 DEF IndInv, Missed
    <3>4. proc'[Server].held = proc[Server].held /\ proc'[Server].fd0 = proc[Server].fd0
      BY <1>0, <2>3, <2>8 DEF Children
    <3>5. /\ Alive(Server)' => Alive(Server)
          /\ proc'[Server].pc \in {"boot", "accept"} => proc[Server].pc = proc'[Server].pc
      BY <1>0, <2>3, <2>4, <2>6 DEF Children, Alive, Fork, Server
    <3>6. Alive(Server)' => \A q \in Procs : proc'[q].held \subseteq proc'[Server].held
      BY <3>1, <3>4, <3>5 DEF IndInv, Missed
    <3>7. proc'[Server].pc \in {"boot", "accept"} /\ proc'[Server].fd0 = Stdin =>
            \A q \in Procs : proc'[q].held = {}
      BY <3>1, <3>4, <3>5 DEF IndInv, Missed
    <3> QED BY <3>2, <3>3, <3>6, <3>7 DEF Missed, Procs, Server
  <2>13. Unaccepted'
    <3>1. \A c \in Clients : New(c)' => New(c)
      BY <2>6 DEF New, InQ
    <3>2. \A c \in Clients : New(c)' =>
            \A q \in Procs : proc'[q].fd0 # c /\ c \notin proc'[q].held
      BY <2>7, <2>8, <3>1 DEF IndInv, Unaccepted
    <3> QED BY <2>6, <3>2 DEF IndInv, Unaccepted, Procs, InQ, Distinct
  <2> QED BY <2>9, <2>10, <2>11, <2>12, <2>13 DEF IndInv
<1> QED BY <1>1, <1>2

\* close(communicatefd) in the parent.
LEMMA ParentCloseKeeps ==
    ASSUME IndInv, NEW p \in Procs, ParentClose(p)
    PROVE  IndInv'
<1> DEFINE r == [proc[p] EXCEPT !.pc = "accept", !.fd0 = Closed]
<1>0. Stdin # Closed /\ Closed \notin Clients
  BY DescriptorsAssumption
<1>1. /\ DOMAIN r = Fields /\ r.pc = "accept" /\ r.fd0 = Closed
      /\ r.held = proc[p].held /\ r.listening = proc[p].listening
  BY DEF IndInv, Types, Fields
<1>2. Set(p, r) /\ proc[p].pc = "parent" /\ UNCHANGED <<queue, peer>>
  BY DEF ParentClose, peerVars
<1> HIDE DEF r
<1>3. p # Server => ~proc[p].listening
  BY <1>2 DEF IndInv, Roles, Children, Dead
<1>4. Roles'
  BY <1>0, <1>1, <1>2, <1>3, RolesAfter
<1> QED BY <1>0, <1>1, <1>2, <1>4, MoveKeeps DEF Dead

\* close(listenfd) in the child.
LEMMA ChildStartKeeps ==
    ASSUME IndInv, NEW p \in Procs, ChildStart(p)
    PROVE  IndInv'
<1> DEFINE r == [proc[p] EXCEPT !.pc = "read", !.listening = FALSE]
<1>1. /\ DOMAIN r = Fields /\ r.pc = "read" /\ r.fd0 = proc[p].fd0
      /\ r.held = proc[p].held /\ r.listening = FALSE
  BY DEF IndInv, Types, Fields
<1>2. Set(p, r) /\ proc[p].pc = "child" /\ UNCHANGED <<queue, peer>>
  BY DEF ChildStart, peerVars
<1>3. ~r.listening
  BY <1>1, Zenon
<1> HIDE DEF r
<1>4. p # Server
  BY <1>2 DEF IndInv, Roles, Dead
<1>5. Roles'
  BY <1>1, <1>2, <1>3, <1>4, RolesAfter
<1> QED BY <1>1, <1>2, <1>4, <1>5, MoveKeeps DEF Dead

\* A reader goes from read() to write() or back, or closes descriptor 0 and
\* falls into the loop of main().
LEMMA CommunicateKeeps ==
    ASSUME IndInv, NEW p \in Procs, NEW r, Set(p, r), UNCHANGED <<queue, peer>>,
           proc[p].pc \in {"read", "write"},
           \/ r = [proc[p] EXCEPT !.pc = "read"]
           \/ r = [proc[p] EXCEPT !.pc = "write"]
           \/ r = [proc[p] EXCEPT !.pc = "accept", !.fd0 = Closed]
    PROVE  IndInv'
<1>1. /\ DOMAIN r = Fields /\ r.pc \in {"read", "write", "accept"}
      /\ r.fd0 \in {proc[p].fd0, Closed} /\ (r.pc = "accept" => r.fd0 = Closed)
      /\ r.held = proc[p].held /\ r.listening = proc[p].listening
  BY DEF IndInv, Types, Fields
<1>2. p # Server /\ ~proc[p].listening
  BY DEF IndInv, Roles, Children, Dead
<1>3. Roles'
  BY <1>1, <1>2, RolesAfter
<1> QED BY <1>1, <1>2, <1>3, MoveKeeps DEF Dead

\* read() from a connection or from standard input, and write().
LEMMA ChildKeeps ==
    ASSUME IndInv, NEW p \in Procs, ChildRead(p) \/ StdinRead(p) \/ ChildWrite(p)
    PROVE  IndInv'
<1>1. CASE ChildRead(p)
  BY <1>1, CommunicateKeeps DEF ChildRead
<1>2. CASE StdinRead(p)
  BY <1>2, CommunicateKeeps DEF StdinRead, peerVars
<1>3. CASE ChildWrite(p)
  <2>1. CASE Exit(p)
    BY <1>3, <2>1, ExitFades, FadingKeeps DEF IndInv, ChildWrite, peerVars
  <2>2. CASE Set(p, [proc[p] EXCEPT !.pc = "read"])
    BY <1>3, <2>2, CommunicateKeeps DEF ChildWrite, peerVars
  <2> QED BY <1>3, <2>1, <2>2 DEF ChildWrite
<1> QED BY <1>1, <1>2, <1>3

\* The clients change no process; a new connection joins the queue.
LEMMA ClientKeeps ==
    ASSUME IndInv, NEW c \in Clients, Client(c)
    PROVE  IndInv'
<1>0. proc' = proc /\ \A p \in Procs : p \in Procs'
  BY DEF Client, Connect, ClientSend, ClientClose, Procs
<1>1. Roles' /\ Private' /\ Missed'
  BY <1>0 DEF IndInv, Roles, Private, Missed, Alive, Children, Procs, Server, Dead
<1>2. CASE Connect(c)
  <2>1. ~InQ(c, queue)
    BY <1>2 DEF Connect, IndInv, Unaccepted
  <2>2. /\ queue' \in Seq(Clients) /\ Distinct(queue')
        /\ \A d : InQ(d, queue') <=> InQ(d, queue) \/ d = c
    BY <1>2, <2>1, QueueAppend DEF Connect, IndInv, Types, Unaccepted
  <2>3. /\ peer' \in [Clients -> {"idle", "up", "fin", "rst"}] /\ peer'[c] = "up"
        /\ \A d \in Clients : d # c => peer'[d] = peer[d]
    BY <1>2 DEF Connect, IndInv, Types
  <2>4. \A d \in Clients : New(d)' => New(d)
    BY <1>2, <2>2, <2>3 DEF New, Connect
  <2>5. Types'
    BY <1>0, <2>2, <2>3 DEF IndInv, Types, Procs
  <2>6. Unaccepted'
    BY <1>0, <2>2, <2>3, <2>4 DEF IndInv, Unaccepted, Procs
  <2> QED BY <1>1, <2>5, <2>6 DEF IndInv
<1>3. CASE ClientSend(c) \/ ClientClose(c)
  <2>1. /\ queue' = queue /\ peer' \in [Clients -> {"idle", "up", "fin", "rst"}]
        /\ \A d \in Clients : peer'[d] = "idle" <=> peer[d] = "idle"
    BY <1>3 DEF ClientSend, ClientClose, IndInv, Types
  <2>2. Types'
    BY <1>0, <2>1 DEF IndInv, Types, Procs
  <2>3. Unaccepted'
    BY <1>0, <2>1 DEF IndInv, Unaccepted, New, InQ, Distinct, Procs
  <2> QED BY <1>1, <2>2, <2>3 DEF IndInv
<1> QED BY <1>2, <1>3 DEF Client

-----------------------------------------------------------------------------
\* The invariant holds in every reachable state of multi_processor_server.c.
THEOREM IndInvAlways == Spec => []IndInv
<1>1. IndInv /\ [Next]_vars => IndInv'
  <2> SUFFICES ASSUME IndInv, [Next]_vars PROVE IndInv'
    OBVIOUS
  <2>1. ASSUME NEW p \in Procs, Run(p) PROVE IndInv'
    <3>1. CASE Accept(p)
      <4>1. CASE proc[p].listening /\ queue # <<>> /\ queue' = Tail(queue)
        BY <3>1, <4>1, AcceptTakesKeeps
      <4>2. CASE Set(p, [proc[p] EXCEPT !.pc = "fork"]) /\ queue' = queue
        BY <3>1, <4>2, AcceptFailsKeeps DEF Accept, peerVars
      <4> QED BY <3>1, <4>1, <4>2 DEF Accept
    <3> QED BY <2>1, <3>1, BootKeeps, ForkKeeps, ParentCloseKeeps, ChildStartKeeps,
               ChildKeeps DEF Run
  <2>2. ASSUME NEW p \in Procs, StdinRead(p) PROVE IndInv'
    BY <2>2, ChildKeeps
  <2>3. ASSUME NEW p \in Procs, recycle(p) PROVE IndInv'
    BY <2>3, recycleFades, FadingKeeps DEF IndInv, recycle, peerVars
  <2>4. CASE UNCHANGED vars
    BY <2>4 DEF vars, peerVars, IndInv, Types, Roles, Private, Missed, Unaccepted,
                Alive, New, InQ, Distinct, Children, Procs, Server, Dead
  <2> QED BY <2>1, <2>2, <2>3, <2>4, ClientKeeps DEF Next, Idle
<1> QED BY <1>1, IndInvInit, PTL DEF Spec

\* However the descriptors are copied, one process at most reads a connection,
\* and the server reads none.
THEOREM OneReaderAlways == Spec => []OneReader
<1>1. IndInv => OneReader
  <2> SUFFICES ASSUME IndInv, NEW c \in Clients
               PROVE  Cardinality(Readers(c)) <= 1 /\ Server \notin Readers(c)
    BY DEF OneReader
  <2>1. Server \notin Readers(c)
    BY DEF IndInv, Roles, Readers, Dead
  <2>2. \A p, q \in Readers(c) : p = q
    BY <2>1 DEF IndInv, Private, Readers, Children
  <2>3. CASE Readers(c) = {}
    BY <2>1, <2>3, FS_EmptySet
  <2>4. ASSUME NEW p \in Readers(c) PROVE Cardinality(Readers(c)) = 1
    <3>1. Readers(c) = {p}
      BY <2>2
    <3> QED BY <3>1, FS_Singleton
  <2> QED BY <2>1, <2>3, <2>4
<1> QED BY <1>1, IndInvAlways, PTL

\* Line 126 costs the server one connection: only the first one it accepts is
\* never read, and it stays open in the server.
THEOREM FirstOnly == Spec => []OnlyFirstIsMissed
<1>1. IndInv => OnlyFirstIsMissed
  <2> SUFFICES ASSUME IndInv, NEW c \in Clients, NEW p \in Procs, c \in proc[p].held
               PROVE  /\ Readers(c) = {}
                      /\ \A q \in Procs : proc[q].held \subseteq {c}
                      /\ Alive(Server) => c \in proc[Server].held
    BY DEF OnlyFirstIsMissed
  <2> QED BY DEF IndInv, Missed, Readers
<1> QED BY <1>1, IndInvAlways, PTL

-----------------------------------------------------------------------------
(* Dead children.  SIGCHLD is not queued, so the handler must not count on  *)
(* one signal per child.                                                    *)

\* A process is an orphan or the child of another process that lives, and the
\* parent of a zombie has a SIGCHLD pending.
Family ==
    /\ chld \subseteq Procs
    /\ \A q \in Procs : \/ proc[q].parent = Orphan
                        \/ proc[q].parent \in Procs \ {q} /\ Alive(proc[q].parent)
    /\ \A q \in Procs : proc[q].pc = "zombie" => proc[q].parent \in chld

\* Orphans have no parent among the processes.
LEMMA OrphanIsNone == Orphan \notin Procs
  BY DEF Orphan, Procs

\* A living process that goes on with the parent it has.
LEMMA GoesOnKeepsFamily ==
    ASSUME Types, Family, NEW p \in Procs, NEW r, Set(p, r), chld' = chld,
           r.parent = proc[p].parent, r.pc \notin Dead, proc[p].pc \notin Dead
    PROVE  Family'
<1>1. /\ proc'[p] = r
      /\ \A q \in Procs : q # p => proc'[q] = proc[q]
  BY SetOne
<1>2. \A q \in Procs : proc'[q].parent = proc[q].parent /\ (Alive(q) => Alive(q)')
  BY <1>1 DEF Alive, Dead
<1>3. \A q \in Procs : proc'[q].pc = "zombie" => proc[q].pc = "zombie"
  BY <1>1 DEF Dead
<1>4. \A q \in Procs :
        \/ proc'[q].parent = Orphan
        \/ proc'[q].parent \in Procs \ {q} /\ proc'[proc'[q].parent].pc \notin Dead
  BY <1>1, <1>2 DEF Family, Alive, Dead
<1> QED BY <1>2, <1>3, <1>4 DEF Family, Procs, Alive, Dead, Orphan

\* exit(): the children of p become orphans, the dead among them vanish, and
\* the parent of p, which is not p, is sent a SIGCHLD.
LEMMA ExitKeepsFamily ==
    ASSUME Types, Family, NEW p \in Procs, proc[p].pc \notin Dead, Exit(p)
    PROVE  Family'
<1> DEFINE parent == proc[p].parent
           zombie == [NoProcess EXCEPT !.pc = "zombie", !.parent = parent]
           orphan(q) == [proc[q] EXCEPT !.parent = Orphan]
<1>1. NoProcess.pc = "none" /\ NoProcess.parent = Orphan
  BY DEF NoProcess
<1>2. zombie.pc = "zombie" /\ zombie.parent = parent
  BY DEF NoProcess
<1>3. ASSUME NEW q \in Procs
      PROVE  orphan(q).parent = Orphan /\ orphan(q).pc = proc[q].pc
  BY DEF Types, Fields
<1>4. /\ proc'[p] = IF parent = Orphan THEN NoProcess ELSE zombie
      /\ \A q \in Procs : q # p =>
           proc'[q] = IF proc[q].parent = p /\ proc[q].pc = "zombie" THEN NoProcess
                      ELSE IF proc[q].parent = p THEN orphan(q)
                      ELSE proc[q]
      /\ chld' = (chld \ {p}) \union ({parent} \ {Orphan})
  BY DEF Exit
<1> HIDE DEF zombie, orphan
<1>5. parent = Orphan \/ (parent \in Procs \ {p} /\ proc[parent].pc \notin Dead)
  BY DEF Family, Alive, Dead
<1> HIDE DEF parent
<1>6. chld' \subseteq Procs
  BY <1>4, <1>5 DEF Family
<1>7. ASSUME NEW q \in Procs, q # p, proc[q].pc \notin Dead
      PROVE  proc'[q].pc \notin Dead
  BY <1>3, <1>4, <1>7 DEF Dead
<1>8. ASSUME NEW q \in Procs
      PROVE  \/ proc'[q].parent = Orphan
             \/ proc'[q].parent \in Procs \ {q} /\ proc'[proc'[q].parent].pc \notin Dead
  <2>1. CASE q = p
    BY <1>1, <1>2, <1>4, <1>5, <1>7, <2>1
  <2>2. CASE q # p /\ proc[q].parent = p
    BY <1>1, <1>3, <1>4, <2>2
  <2>3. CASE q # p /\ proc[q].parent # p
    <3>1. proc'[q] = proc[q]
      BY <1>4, <2>3
    <3>2. \/ proc[q].parent = Orphan
          \/ proc[q].parent \in Procs \ {q} /\ proc[proc[q].parent].pc \notin Dead
      BY DEF Family, Alive, Dead
    <3> QED BY <1>7, <2>3, <3>1, <3>2
  <2> QED BY <2>1, <2>2, <2>3
<1>9. ASSUME NEW q \in Procs, proc'[q].pc = "zombie"
      PROVE  proc'[q].parent \in chld'
  <2>1. CASE q = p
    BY <1>1, <1>2, <1>4, <1>9, <2>1
  <2>2. CASE q # p /\ proc[q].parent = p
    BY <1>1, <1>3, <1>4, <1>9, <2>2
  <2>3. CASE q # p /\ proc[q].parent # p
    BY <1>4, <1>9, <2>3 DEF Family
  <2> QED BY <2>1, <2>2, <2>3
<1> QED BY <1>6, <1>8, <1>9 DEF Family, Procs, Alive, Dead, Orphan

\* The handler leaves no dead child of its process, so the signal it has
\* answered for all of them may go.
LEMMA recycleKeepsFamily ==
    ASSUME Types, Family, NEW p \in Procs, recycle(p)
    PROVE  Family'
<1>1. NoProcess.pc = "none" /\ NoProcess.parent = Orphan
  BY DEF NoProcess
<1>2. /\ \A q \in Procs : proc'[q] =
           IF proc[q].pc = "zombie" /\ proc[q].parent = p THEN NoProcess ELSE proc[q]
      /\ chld' = chld \ {p}
  BY DEF recycle
<1>3. \A q \in Procs : proc[q].pc \notin Dead => proc'[q] = proc[q]
  BY <1>2 DEF Dead
<1>4. ASSUME NEW q \in Procs
      PROVE  \/ proc'[q].parent = Orphan
             \/ proc'[q].parent \in Procs \ {q} /\ proc'[proc'[q].parent].pc \notin Dead
  <2>1. \/ proc[q].parent = Orphan
        \/ proc[q].parent \in Procs \ {q} /\ proc[proc[q].parent].pc \notin Dead
    BY DEF Family, Alive, Dead
  <2> QED BY <1>1, <1>2, <1>3, <2>1
<1>5. ASSUME NEW q \in Procs, proc'[q].pc = "zombie"
      PROVE  proc'[q].parent \in chld'
  BY <1>1, <1>2, <1>5 DEF Family
<1> QED BY <1>2, <1>4, <1>5 DEF Family, Procs, Alive, Dead, Orphan

\* fork(): the child's pid was free, so nobody has it for a parent.
LEMMA ForkKeepsFamily ==
    ASSUME Types, Family, NEW p \in Procs, Fork(p)
    PROVE  Family'
<1>1. CASE FreePids = {}
  BY <1>1, ExitKeepsFamily DEF Fork, Dead
<1>2. CASE FreePids # {}
  <2> DEFINE m == Min(FreePids)
             parent == [proc[p] EXCEPT !.pc = "parent"]
             child == [proc[p] EXCEPT !.pc = "child", !.parent = p]
  <2>1. FreePids \in SUBSET Nat
    BY SizesAssumption DEF FreePids, Procs
  <2>2. m \in FreePids
    BY <1>2, <2>1, LeastExists
  <2>3. m \in Procs /\ m # p /\ proc[m].pc = "none"
    BY <2>2 DEF FreePids, Fork
  <2>4. parent.pc = "parent" /\ parent.parent = proc[p].parent
    BY DEF Types, Fields
  <2>5. child.pc = "child" /\ child.parent = p
    BY DEF Types, Fields
  <2>6. /\ proc'[p] = parent /\ proc'[m] = child /\ chld' = chld
        /\ \A q \in Procs : q # p /\ q # m => proc'[q] = proc[q]
    BY <1>2, <2>3 DEF Fork, Types
  <2> HIDE DEF m, parent, child
  <2>7. \A q \in Procs : proc[q].pc \notin Dead => proc'[q].pc \notin Dead
    BY <2>3, <2>4, <2>6 DEF Dead
  <2>8. ASSUME NEW q \in Procs
        PROVE  \/ proc'[q].parent = Orphan
               \/ proc'[q].parent \in Procs \ {q} /\ proc'[proc'[q].parent].pc \notin Dead
    <3>1. CASE q = m
      BY <2>3, <2>4, <2>5, <2>6, <3>1 DEF Dead
    <3>2. CASE q # m
      <4>1. proc'[q].parent = proc[q].parent
        BY <2>4, <2>6, <3>2
      <4>2. \/ proc[q].parent = Orphan
            \/ proc[q].parent \in Procs \ {q} /\ proc[proc[q].parent].pc \notin Dead
        BY DEF Family, Alive, Dead
      <4> QED BY <2>7, <4>1, <4>2
    <3> QED BY <3>1, <3>2
  <2>9. ASSUME NEW q \in Procs, proc'[q].pc = "zombie"
        PROVE  proc'[q].parent \in chld'
    BY <2>3, <2>4, <2>5, <2>6, <2>9 DEF Family
  <2> QED BY <2>6, <2>8, <2>9 DEF Family, Procs, Alive, Dead, Orphan
<1> QED BY <1>1, <1>2

\* The other steps of a process change neither its parent nor who is alive.
LEMMA RunKeepsFamily ==
    ASSUME Types, Family, NEW p \in Procs,
           Boot(p) \/ Accept(p) \/ ParentClose(p) \/ ChildStart(p)
             \/ ChildRead(p) \/ StdinRead(p) \/ ChildWrite(p)
    PROVE  Family'
<1>1. proc[p].pc \notin Dead
  BY DEF Boot, Accept, ParentClose, ChildStart, ChildRead, StdinRead, ChildWrite, Dead
<1>2. CASE Exit(p)
  BY <1>1, <1>2, ExitKeepsFamily
<1>3. CASE ~Exit(p)
  <2>1. chld' = chld
    BY <1>3 DEF Boot, Accept, ParentClose, ChildStart, ChildRead, StdinRead, ChildWrite
  <2> DEFINE to(pc) == [proc[p] EXCEPT !.pc = pc]
             hears == [proc[p] EXCEPT !.pc = "accept", !.listening = TRUE]
             deaf == [proc[p] EXCEPT !.pc = "read", !.listening = FALSE]
             on0(c) == [proc[p] EXCEPT !.pc = "fork", !.fd0 = c]
             keeps(c) == [proc[p] EXCEPT !.pc = "fork", !.held = @ \union {c}]
             closes == [proc[p] EXCEPT !.pc = "accept", !.fd0 = Closed]
             Living(r) == r.parent = proc[p].parent /\ r.pc \notin Dead
  <2>2. /\ Living(to("fork")) /\ Living(to("read")) /\ Living(to("write"))
        /\ Living(hears) /\ Living(deaf) /\ Living(closes)
        /\ \A c : Living(on0(c)) /\ Living(keeps(c))
    <3> USE DEF Types, Fields, Dead
    <3>1. Living(to("fork")) /\ Living(to("read")) /\ Living(to("write"))
      OBVIOUS
    <3>2. Living(hears)
      OBVIOUS
    <3>3. Living(deaf)
      OBVIOUS
    <3>4. Living(closes)
      OBVIOUS
    <3>5. ASSUME NEW c PROVE Living(on0(c)) /\ Living(keeps(c))
      OBVIOUS
    <3> QED BY <3>1, <3>2, <3>3, <3>4, <3>5
  <2>3. \/ Set(p, to("fork")) \/ Set(p, to("read")) \/ Set(p, to("write"))
        \/ Set(p, hears) \/ Set(p, deaf) \/ Set(p, closes)
        \/ \E c : Set(p, on0(c)) \/ Set(p, keeps(c))
    BY <1>3, Zenon
    DEF Boot, Accept, ParentClose, ChildStart, ChildRead, StdinRead, ChildWrite
  <2> HIDE DEF to, hears, deaf, on0, keeps, closes, Living
  <2>4. PICK r : Set(p, r) /\ Living(r)
    BY <2>2, <2>3, Zenon
  <2> QED BY <1>1, <2>1, <2>4, GoesOnKeepsFamily DEF Living
<1> QED BY <1>2, <1>3

\* No zombie is forgotten: as long as it is there, its parent lives and has a
\* SIGCHLD to come, whose handler reaps it, even if several children died on
\* one signal.  (That the signal is delivered is a matter of fairness.)
THEOREM NoZombieForgotten ==
    Spec => [](\A q \in Procs : proc[q].pc = "zombie" =>
                  \E p \in Procs \ {q} : p = proc[q].parent /\ Alive(p) /\ p \in chld)
<1>1. Init => Family
  <2> SUFFICES ASSUME Init PROVE Family
    OBVIOUS
  <2>1. NoProcess.pc = "none" /\ NoProcess.parent = Orphan
    BY DEF NoProcess
  <2>2. \A q \in Procs : proc[q].pc \in {"boot", "none"} /\ proc[q].parent = Orphan
    BY <2>1 DEF Init, NoProcess
  <2> QED BY <2>2 DEF Family, Init
<1>2. IndInv /\ Family /\ [Next]_vars => Family'
  <2> SUFFICES ASSUME IndInv, Family, [Next]_vars PROVE Family'
    OBVIOUS
  <2>1. Types
    BY DEF IndInv
  <2>2. ASSUME NEW p \in Procs, Run(p) \/ StdinRead(p) PROVE Family'
    BY <2>1, <2>2, RunKeepsFamily, ForkKeepsFamily DEF Run
  <2>3. ASSUME NEW p \in Procs, recycle(p) PROVE Family'
    BY <2>1, <2>3, recycleKeepsFamily
  <2>4. CASE UNCHANGED <<proc, chld>>
    BY <2>4 DEF Family, Procs, Alive, Orphan
  <2>5. ASSUME NEW c \in Clients, Client(c) PROVE Family'
    BY <2>4, <2>5 DEF Client, Connect, ClientSend, ClientClose
  <2> QED BY <2>2, <2>3, <2>4, <2>5 DEF Next, Idle, vars
<1>3. Family => \A q \in Procs : proc[q].pc = "zombie" =>
                  \E p \in Procs \ {q} : p = proc[q].parent /\ Alive(p) /\ p \in chld
  BY OrphanIsNone DEF Family
<1> QED BY <1>1, <1>2, <1>3, IndInvAlways, PTL DEF Spec
=============================================================================
