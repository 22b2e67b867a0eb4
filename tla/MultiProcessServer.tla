------------------------- MODULE MultiProcessServer -------------------------
(***************************************************************************)
(* webprogramming/multi_processor_server.c: a TCP server that forks a      *)
(* process per connection and reaps its children in a SIGCHLD handler.     *)
(*                                                                         *)
(* The loop condition of line 126 assigns the comparison of accept() with  *)
(* -1, not its result: communicatefd is 0 whatever accept() returned, and  *)
(* everything after it works on descriptor 0.  A process is therefore      *)
(* described by what its descriptor 0 is, whether its listening descriptor *)
(* is open, and which connections it holds on other descriptors.           *)
(***************************************************************************)
EXTENDS Integers, Sequences, FiniteSets, FiniteSetsExt, Functions

CONSTANTS
    Clients,            \* each connects at most once
    MaxProcs,           \* processes the system has room for; fork() then fails
    MaxSend,            \* segments a client sends (bound)
    Stdin,              \* descriptor 0 as the server inherits it
    Closed              \* a closed descriptor 0

ASSUME SizesAssumption == MaxProcs \in Nat \ {0} /\ MaxSend \in Nat
ASSUME DescriptorsAssumption == Stdin # Closed /\ {Stdin, Closed} \intersect Clients = {}

VARIABLES
    proc,               \* the processes: pc, parent, fd0, listening, held
    chld,               \* the processes with a SIGCHLD pending
    queue,              \* established connections waiting for accept()
    peer,               \* what each client's end has done: idle, up, fin, rst
    toSend,             \* segments each client may still send
    rcv                 \* segments received from the client and not read

peerVars == <<peer, toSend, rcv>>
vars == <<proc, chld, queue, peerVars>>

Procs == 1..MaxProcs
Server == 1                                 \* the process main() starts in
Orphan == 0                                 \* the parent of an orphan: init
NoProcess == [pc |-> "none", parent |-> Orphan, fd0 |-> Closed,
              listening |-> FALSE, held |-> {}]

Alive(p) == proc[p].pc \notin {"none", "zombie"}
FreePids == {p \in Procs \ {Server} : proc[p].pc = "none"}

Init ==
    /\ proc = [p \in Procs |->
          IF p = Server THEN [NoProcess EXCEPT !.pc = "boot", !.fd0 = Stdin] ELSE NoProcess]
    /\ chld = {}
    /\ queue = <<>>
    /\ peer = [c \in Clients |-> "idle"]
    /\ toSend = [c \in Clients |-> MaxSend]
    /\ rcv = [c \in Clients |-> 0]

\* Process p ends.  Its children go to init, which reaps the dead ones; p
\* itself waits for its parent, which gets a SIGCHLD, or goes as well.
Exit(p) ==
    LET parent == proc[p].parent
        gone(q) == proc[q].parent = p /\ proc[q].pc = "zombie"
    IN  /\ proc' = [q \in Procs |->
              IF q = p THEN IF parent = Orphan THEN NoProcess
                            ELSE [NoProcess EXCEPT !.pc = "zombie", !.parent = parent]
              ELSE IF gone(q) THEN NoProcess
              ELSE IF proc[q].parent = p THEN [proc[q] EXCEPT !.parent = Orphan]
              ELSE proc[q]]
        /\ chld' = (chld \ {p}) \union ({parent} \ {Orphan})

Set(p, new) == proc' = [proc EXCEPT ![p] = new]

-----------------------------------------------------------------------------
(* main().                                                                  *)

\* Socket(), Bind() and Listen() exit when they fail.
Boot(p) ==
    /\ proc[p].pc = "boot"
    /\ \/ Set(p, [proc[p] EXCEPT !.pc = "accept", !.listening = TRUE]) /\ UNCHANGED chld
       \/ Exit(p)
    /\ UNCHANGED <<queue, peerVars>>

\* The connection goes to the lowest free descriptor.  accept() on a closed
\* descriptor fails at once, not with EINTR, and the loop is left just so.
Accept(p) ==
    /\ proc[p].pc = "accept"
    /\ \/ /\ proc[p].listening /\ queue # <<>>
          /\ LET c == Head(queue)
             IN  IF proc[p].fd0 = Closed
                 THEN Set(p, [proc[p] EXCEPT !.pc = "fork", !.fd0 = c])
                 ELSE Set(p, [proc[p] EXCEPT !.pc = "fork", !.held = @ \union {c}])
          /\ queue' = Tail(queue)
       \/ /\ ~proc[p].listening
          /\ Set(p, [proc[p] EXCEPT !.pc = "fork"])
          /\ UNCHANGED queue
    /\ UNCHANGED <<chld, peerVars>>

\* The child is a copy of its parent; Fork() exits when fork() fails.
Fork(p) ==
    /\ proc[p].pc = "fork"
    /\ IF FreePids = {} THEN Exit(p)
       ELSE /\ proc' = [proc EXCEPT
                  ![p].pc = "parent",
                  ![Min(FreePids)] = [proc[p] EXCEPT !.pc = "child", !.parent = p]]
            /\ UNCHANGED chld
    /\ UNCHANGED <<queue, peerVars>>

\* A parent that keeps communicatefd open.
ParentKeepsFd(p) ==
    /\ proc[p].pc = "parent"
    /\ Set(p, [proc[p] EXCEPT !.pc = "accept"])
    /\ UNCHANGED <<chld, queue, peerVars>>

\* A parent that goes on into the communication loop of the child.
ParentReadsToo(p) ==
    /\ proc[p].pc = "parent"
    /\ Set(p, [proc[p] EXCEPT !.pc = "read"])
    /\ UNCHANGED <<chld, queue, peerVars>>

\* close(communicatefd) in the parent.
ParentClose(p) ==
    /\ proc[p].pc = "parent"
    /\ Set(p, [proc[p] EXCEPT !.pc = "accept", !.fd0 = Closed])
    /\ UNCHANGED <<chld, queue, peerVars>>

\* close(listenfd) in the child.
ChildStart(p) ==
    /\ proc[p].pc = "child"
    /\ Set(p, [proc[p] EXCEPT !.pc = "read", !.listening = FALSE])
    /\ UNCHANGED <<chld, queue, peerVars>>

\* read(communicatefd) from a connection.  An error (a reset connection, a
\* closed descriptor) is reported and the read repeated, which is no step
\* here; after the error a reset connection reads as ended.
ChildRead(p) ==
    LET c == proc[p].fd0
    IN  /\ proc[p].pc = "read" /\ c \in Clients
        /\ \/ /\ rcv[c] > 0
              /\ \E left \in 0..(rcv[c] - 1) : rcv' = [rcv EXCEPT ![c] = left]
              /\ Set(p, [proc[p] EXCEPT !.pc = "write"])
           \/ /\ rcv[c] = 0 /\ peer[c] # "up"
              /\ Set(p, [proc[p] EXCEPT !.pc = "accept", !.fd0 = Closed])
              /\ UNCHANGED rcv
        /\ UNCHANGED <<chld, queue, peer, toSend>>

\* The same from the server's standard input, which may offer a line, end, or
\* do neither for ever.
StdinRead(p) ==
    /\ proc[p].pc = "read" /\ proc[p].fd0 = Stdin
    /\ \/ Set(p, [proc[p] EXCEPT !.pc = "write"])
       \/ Set(p, [proc[p] EXCEPT !.pc = "accept", !.fd0 = Closed])
    /\ UNCHANGED <<chld, queue, peerVars>>

\* write(): unchecked, and on a reset connection SIGPIPE may end the process.
ChildWrite(p) ==
    /\ proc[p].pc = "write"
    /\ \/ Set(p, [proc[p] EXCEPT !.pc = "read"]) /\ UNCHANGED chld
       \/ proc[p].fd0 \in Clients /\ peer[proc[p].fd0] = "rst" /\ Exit(p)
    /\ UNCHANGED <<queue, peerVars>>

\* A handler that reaps one child per signal.
recycleOne(p) ==
    /\ Alive(p) /\ p \in chld
    /\ LET dead == {q \in Procs : proc[q].pc = "zombie" /\ proc[q].parent = p}
       IN  proc' = [q \in Procs |->
              IF dead # {} /\ q = Min(dead) THEN NoProcess ELSE proc[q]]
    /\ chld' = chld \ {p}
    /\ UNCHANGED <<queue, peerVars>>

\* The SIGCHLD handler: it reaps every dead child, for signals that arrive
\* while one is pending are merged.  SA_RESTART lets accept() go on.
recycle(p) ==
    /\ Alive(p) /\ p \in chld
    /\ proc' = [q \in Procs |->
          IF proc[q].pc = "zombie" /\ proc[q].parent = p THEN NoProcess ELSE proc[q]]
    /\ chld' = chld \ {p}
    /\ UNCHANGED <<queue, peerVars>>

Run(p) == Boot(p) \/ Accept(p) \/ Fork(p) \/ ParentClose(p) \/ ChildStart(p)
             \/ ChildRead(p) \/ ChildWrite(p)

-----------------------------------------------------------------------------
(* The clients and the network.                                             *)

Listening == \E p \in Procs : proc[p].listening

Connect(c) ==
    /\ Listening
    /\ peer[c] = "idle"
    /\ peer' = [peer EXCEPT ![c] = "up"]
    /\ queue' = Append(queue, c)
    /\ UNCHANGED <<proc, chld, toSend, rcv>>

ClientSend(c) ==
    /\ peer[c] = "up" /\ toSend[c] > 0
    /\ toSend' = [toSend EXCEPT ![c] = @ - 1]
    /\ rcv' = [rcv EXCEPT ![c] = @ + 1]
    /\ UNCHANGED <<proc, chld, queue, peer>>

ClientClose(c) ==
    /\ \/ peer[c] = "up" /\ peer' = [peer EXCEPT ![c] = "fin"]
       \/ peer[c] \in {"up", "fin"} /\ peer' = [peer EXCEPT ![c] = "rst"]
    /\ UNCHANGED <<proc, chld, queue, toSend, rcv>>

Client(c) == Connect(c) \/ ClientSend(c) \/ ClientClose(c)

\* Every process is gone, blocked, or repeating a read that fails.
Blocked(p) ==
    \/ proc[p].pc \in {"none", "zombie"}
    \/ proc[p].pc = "accept" /\ proc[p].listening /\ queue = <<>>
    \/ /\ proc[p].pc = "read"
       /\ proc[p].fd0 \in Clients => rcv[proc[p].fd0] = 0 /\ peer[proc[p].fd0] = "up"

Idle ==
    /\ \A p \in Procs : Blocked(p)
    /\ UNCHANGED vars

Next ==
    \/ \E p \in Procs : Run(p) \/ StdinRead(p) \/ recycle(p)
    \/ \E c \in Clients : Client(c)
    \/ Idle

Spec == Init /\ [][Next]_vars

(***************************************************************************)
(* Every process runs when it can, and a pending signal is delivered.      *)
(* Nothing is expected of the clients or of standard input.                *)
(***************************************************************************)
FairSpec == Spec /\ \A p \in Procs : WF_vars(Run(p)) /\ WF_vars(recycle(p))

-----------------------------------------------------------------------------
Readers(c) == {p \in Procs : proc[p].pc \in {"read", "write"} /\ proc[p].fd0 = c}

(***************************************************************************)
(* Descriptors are copied by every fork(), yet no connection is ever read  *)
(* by two processes, and the process that accepts reads none: requests of  *)
(* one client cannot be split between two children.                        *)
(***************************************************************************)
OneReader ==
    \A c \in Clients : Cardinality(Readers(c)) <= 1 /\ Server \notin Readers(c)

(***************************************************************************)
(* What line 126 makes of the server: only the first connection misses     *)
(* descriptor 0.  It stays open in the server for good and is never read;  *)
(* every later one is accepted as descriptor 0 and is never on another.    *)
(***************************************************************************)
OnlyFirstIsMissed ==
    \A c \in Clients : \A p \in Procs : c \in proc[p].held =>
      /\ Readers(c) = {}
      /\ \A q \in Procs : proc[q].held \subseteq {c}
      /\ Alive(Server) => c \in proc[Server].held

(***************************************************************************)
(* No dead child stays a zombie, however many die while one SIGCHLD is     *)
(* pending: its parent reaps it or ends itself.                            *)
(***************************************************************************)
ZombiesReaped ==
    \A p \in Procs : proc[p].pc = "zombie" ~> proc[p].pc # "zombie"

(***************************************************************************)
(* multi_processor_server.c:133, "fork children to process communication": *)
(* a child reads a connection.  (The child of the first connection reads   *)
(* standard input; a child whose connection has ended falls back into the  *)
(* accept loop and forks children that have nothing to read.)              *)
(***************************************************************************)
ChildHasConnection ==
    \A p \in Procs : proc[p].pc = "child" => proc[p].fd0 \in Clients
=============================================================================
