------------------------------ MODULE EchoPair ------------------------------
(***************************************************************************)
(* tcpServer.c and one client, tcpClient.c or client.c, over one stream    *)
(* connection.  Bytes are counted, not told apart: the server sends back   *)
(* as many as it read.  A stream keeps no message boundaries, so a read    *)
(* may return any part of what is there, and a write blocks while the      *)
(* buffer of its direction is full.  A client that finds its input at the  *)
(* end sends its old buffer again: fgets() is not looked at.               *)
(***************************************************************************)
EXTENDS Integers

CONSTANTS
    MaxLine,            \* the longest line (1027 bytes in the code)
    Password,           \* bytes the handler sends: 21 in the code
    Cap                 \* the bytes one direction of the connection buffers

ASSUME EchoAssumption == MaxLine \in Nat \ {0} /\ Password \in Nat \ {0} /\ Cap \in Nat \ {0}

VARIABLES
    who,                \* "tcpClient" or "client", fixed at start
    cli,                \* where the client is
    srv,                \* where the server is
    left,               \* what the client has still to write of its line
    nest,               \* how many runs of its signal handler are under way
    owes,               \* what they have still to write
    up, down,           \* bytes under way to the server and to the client
    held                \* bytes the server has read and not yet sent back

handler == <<nest, owes>>
wire == <<up, down, held>>
echoVars == <<who, cli, srv, left, handler, wire>>

EchoInit ==
    /\ who \in {"tcpClient", "client"}
    /\ cli = "start" /\ srv = "start"
    /\ left = 0 /\ nest = 0 /\ owes = 0
    /\ up = 0 /\ down = 0 /\ held = 0

Reading == {"read", "read_empty"}
Connected == cli \notin {"start", "failed", "end"}

-----------------------------------------------------------------------------
(* The clients.                                                             *)

\* connect() is answered by the kernel of a listening server; tcpClient.c exits
\* if it fails.
Connect ==
    /\ who = "tcpClient" /\ cli = "start"
    /\ cli' = "failed" \/ (srv = "accept" /\ cli' = "fgets")
    /\ UNCHANGED <<who, srv, left, handler, wire>>

\* client.c looks at no result: after a failed connect() its first write or
\* read ends it.  Its inet_pton() gets a value for a pointer (line 37): that may
\* end it as well, or leave an address where nobody listens.
ConnectUnchecked ==
    /\ who = "client" /\ cli = "start"
    /\ cli' = "failed" \/ (srv = "accept" /\ cli' = "fgets")
    /\ UNCHANGED <<who, srv, left, handler, wire>>

\* fgets() has put a line of n bytes into the buffer.  A buffer that starts
\* with a zero byte is empty: tcpClient.c leaves its loop, client.c reads.
Line(n) ==
    /\ cli = "fgets" /\ owes = 0
    /\ left' = n
    /\ cli' = IF n > 0 THEN "write" ELSE IF who = "tcpClient" THEN "end" ELSE "read_empty"
    /\ UNCHANGED <<who, srv, handler, wire>>

\* A client that goes on to read before it has written anything.
ReadFirst(k) ==
    /\ cli \in {"write", "writing"} /\ owes = 0 /\ srv # "end"
    /\ k <= left /\ up + k <= Cap
    /\ cli' = "read" /\ left' = 0
    /\ UNCHANGED <<who, srv, handler, wire>>

\* write() moves k bytes into the connection, and returns when all are there.
Write(k) ==
    /\ cli \in {"write", "writing"} /\ owes = 0 /\ srv # "end"
    /\ k <= left /\ up + k <= Cap
    /\ up' = up + k /\ left' = left - k
    /\ cli' = IF left = k THEN "read" ELSE "writing"
    /\ UNCHANGED <<who, srv, handler, down, held>>

\* The server is gone: the write is still taken, or SIGPIPE ends the client.
WriteToNobody ==
    /\ cli \in {"write", "writing"} /\ owes = 0 /\ srv = "end"
    /\ left' = 0 /\ cli' \in {"read", "end"}
    /\ UNCHANGED <<who, srv, handler, wire>>

\* A client that expects the whole answer of a line in one read.
ReadWhole(k) ==
    /\ cli \in Reading /\ owes = 0
    /\ k = MaxLine /\ k <= down
    /\ down' = down - k /\ cli' = "fgets"
    /\ UNCHANGED <<who, srv, left, handler, up, held>>

Read(k) ==
    /\ cli \in Reading /\ owes = 0
    /\ k <= down
    /\ down' = down - k /\ cli' = "fgets"
    /\ UNCHANGED <<who, srv, left, handler, up, held>>

\* The end of the stream, or a reset.  At the end tcpClient.c goes on (line 81).
ReadEnd ==
    /\ cli \in Reading /\ owes = 0 /\ srv = "end"
    /\ cli' = "end" \/ (who = "tcpClient" /\ cli' = "fgets")
    /\ UNCHANGED <<who, srv, left, handler, wire>>

\* SIGTSTP and SIGQUIT, each blocked while its own handler runs.
Handlers == 2

\* SIGTSTP or SIGQUIT: disconnectServer() writes the stop password, also in the
\* middle of the handler of the other signal.  Calls are restarted afterwards,
\* but a write that has moved bytes returns short, and the rest of the line, or
\* of the interrupted password, is dropped.
Stop ==
    /\ Connected /\ nest < Handlers
    /\ nest' = nest + 1
    /\ owes' = IF owes = Password THEN 2 * Password ELSE Password
    /\ IF cli = "writing" THEN cli' = "read" /\ left' = 0 ELSE UNCHANGED <<cli, left>>
    /\ UNCHANGED <<who, srv, wire>>

StopWrite(k) ==
    /\ Connected /\ owes > 0
    /\ k <= owes
    /\ \/ /\ srv # "end" /\ up + k <= Cap
          /\ up' = up + k /\ owes' = owes - k /\ UNCHANGED cli
       \/ /\ srv = "end"
          /\ UNCHANGED up /\ owes' = 0 /\ cli' \in {cli, "end"}
    /\ nest' = IF owes' = 0 THEN 0 ELSE IF owes' <= Password /\ Password < owes THEN 1 ELSE nest
    /\ UNCHANGED <<who, srv, left, down, held>>

\* The user ends the client, or the machine does.
KillClient ==
    /\ Connected
    /\ cli' = "end" /\ left' = 0 /\ nest' = 0 /\ owes' = 0
    /\ UNCHANGED <<who, srv, wire>>

ClientWrite == WriteToNobody \/ \E k \in 1..MaxLine : Write(k)
ClientRead  == ReadEnd \/ \E k \in 1..Cap : Read(k)
StopStep    == \E k \in 1..Password : StopWrite(k)

-----------------------------------------------------------------------------
(* tcpServer.c.                                                             *)

\* socket(), bind(), listen(): each failure exits.
Listen ==
    /\ srv = "start"
    /\ srv' \in {"accept", "end"}
    /\ UNCHANGED <<who, cli, left, handler, wire>>

\* One client, and no other, is served.
Accept ==
    /\ srv = "accept" /\ cli \notin {"start", "failed"}
    /\ srv' = "read"
    /\ UNCHANGED <<who, cli, left, handler, wire>>

ServerRead(k) ==
    /\ srv = "read" /\ k <= up
    /\ up' = up - k /\ held' = k
    /\ srv' = "write"
    /\ UNCHANGED <<who, cli, left, handler, down>>

\* The client is gone: read() reports the end, or a reset.
ServerReadEnd ==
    /\ srv = "read" /\ cli = "end"
    /\ srv' = "end"
    /\ UNCHANGED <<who, cli, left, handler, wire>>

\* write() of what was read; without a reader it is taken or SIGPIPE kills.
ServerWrite(k) ==
    /\ srv = "write" /\ cli # "end"
    /\ k <= held /\ down + k <= Cap
    /\ down' = down + k /\ held' = held - k
    /\ srv' = IF held = k THEN "read" ELSE "write"
    /\ UNCHANGED <<who, cli, left, handler, up>>

ServerWriteToNobody ==
    /\ srv = "write" /\ cli = "end"
    /\ held' = 0 /\ srv' \in {"read", "end"}
    /\ UNCHANGED <<who, cli, left, handler, up, down>>

\* accept() or read() fails, or somebody ends the server.
KillServer ==
    /\ srv # "end"
    /\ srv' = "end"
    /\ UNCHANGED <<who, cli, left, handler, wire>>

Server ==
    \/ Listen \/ Accept \/ ServerReadEnd \/ ServerWriteToNobody
    \/ \E k \in 1..Cap : ServerRead(k) \/ ServerWrite(k)

EchoNext ==
    \/ Connect \/ ConnectUnchecked \/ ClientWrite \/ ClientRead \/ Stop \/ StopStep \/ KillClient
    \/ \E n \in 0..MaxLine : Line(n)
    \/ Server \/ KillServer

EchoSpec == EchoInit /\ [][EchoNext]_echoVars

-----------------------------------------------------------------------------
(***************************************************************************)
(* Client and server never both wait to read with nothing under way: while *)
(* the client waits for an answer some of its bytes are in the connection  *)
(* or in the server's buffer, however reads split them and however many    *)
(* stop passwords lie in between.  Only client.c, which also reads after   *)
(* it wrote nothing, can wait for nothing ("read_empty").                  *)
(***************************************************************************)
EchoNeverStuck ==
    cli = "read" /\ srv # "end" => up + held + down + owes > 0

\* Both directions are full: the server is blocked in its write, and the
\* handler in its own.
BothFull == owes > 0 /\ up = Cap /\ srv = "write" /\ down = Cap
=============================================================================
