------------------------------ MODULE HSocket -------------------------------
(***************************************************************************)
(* HSocket.c: the wrappers of the socket calls.  No file of the repository *)
(* calls them, so their callers are external: a writer that connects,      *)
(* calls WriteN() or Write() for SZ bytes and Close(), and a reader that   *)
(* accepts, calls ReadN() or Read() and Close().  The bytes of the stream  *)
(* are numbered by their place in the writer's buffer.                     *)
(***************************************************************************)
EXTENDS Integers, Sequences

CONSTANTS
    SZ,                 \* the bytes the two callers agree on
    Room                \* the bytes the connection buffers

ASSUME HSocketAssumption == SZ \in Nat \ {0} /\ Room \in Nat \ {0}

VARIABLES
    wcall, rcall,       \* the wrapper each side calls, fixed at start
    writer, reader,     \* where the two are
    wleft, rleft,       \* nleft of WriteN() and ReadN()
    stream,             \* the bytes written and not yet read
    got,                \* the reader's buffer
    wret, rret          \* what the calls returned

hVars == <<wcall, rcall, writer, reader, wleft, rleft, stream, got, wret, rret>>

None == -2                                  \* no call has returned yet
Over == {"exit", "killed", "closed", "spinning"}

HInit ==
    /\ wcall \in {"Write", "WriteN"} /\ rcall \in {"Read", "ReadN"}
    /\ writer = "setup" /\ reader = "setup"
    /\ wleft = SZ /\ rleft = SZ
    /\ stream = <<>> /\ got = <<>>
    /\ wret = None /\ rret = None

\* Socket(), Connect(), Bind() and Listen() exit when the call fails.
SetupWriter ==
    /\ writer = "setup"
    /\ writer' = "exit" \/ (reader = "accept" /\ writer' = "write")
    /\ UNCHANGED <<wcall, rcall, reader, wleft, rleft, stream, got, wret, rret>>

SetupReader ==
    /\ reader = "setup"
    /\ reader' \in {"accept", "exit"}
    /\ UNCHANGED <<wcall, rcall, writer, wleft, rleft, stream, got, wret, rret>>

\* Accept() tries again on EAGAIN, and exits on every other error, EINTR too.
HAccept ==
    /\ reader = "accept" /\ writer \notin {"setup", "exit"}
    /\ reader' = "read"
    /\ UNCHANGED <<wcall, rcall, writer, wleft, rleft, stream, got, wret, rret>>

AcceptFails ==
    /\ reader = "accept"
    /\ reader' = "exit"
    /\ UNCHANGED <<wcall, rcall, writer, wleft, rleft, stream, got, wret, rret>>

-----------------------------------------------------------------------------
(* Write() and WriteN().                                                    *)

\* write() takes the k bytes at ptr; WriteN() goes on until none is left.
WriteSome(k) ==
    /\ writer = "write"
    /\ k <= wleft /\ Len(stream) + k <= Room
    /\ stream' = stream \o [i \in 1..k |-> SZ - wleft + i]
    /\ wleft' = wleft - k
    /\ IF wcall = "Write" \/ wleft = k
       THEN writer' = "close" /\ wret' = IF wcall = "Write" THEN k ELSE SZ
       ELSE UNCHANGED <<writer, wret>>
    /\ UNCHANGED <<wcall, rcall, reader, rleft, got, rret>>

\* A WriteN() that leaves nwritten at -1 after EINTR.
NwrittenKept(n) == IF n < SZ THEN n + 1 ELSE n

\* nleft -= nwritten, with nwritten = 0 after EINTR; Write() just tries again.
NwrittenReset(n) == n

WriteInterrupted ==
    /\ writer = "write"
    /\ wleft' = NwrittenReset(wleft)
    /\ UNCHANGED <<wcall, rcall, writer, reader, rleft, stream, got, wret, rret>>

\* The reader is gone: SIGPIPE kills the writer, or EPIPE is returned.
WriteBroken ==
    /\ writer = "write" /\ reader \in Over
    /\ \/ writer' = "close" /\ wret' = -1
       \/ writer' = "killed" /\ UNCHANGED wret
    /\ UNCHANGED <<wcall, rcall, reader, wleft, rleft, stream, got, rret>>

\* Any other error is returned.
WriteFails ==
    /\ writer = "write"
    /\ writer' = "close" /\ wret' = -1
    /\ UNCHANGED <<wcall, rcall, reader, wleft, rleft, stream, got, rret>>

-----------------------------------------------------------------------------
(* Read() and ReadN().                                                      *)

ReadSome(k) ==
    /\ reader = "read" /\ k <= rleft /\ k <= Len(stream)
    /\ got' = got \o SubSeq(stream, 1, k)
    /\ stream' = SubSeq(stream, k + 1, Len(stream))
    /\ rleft' = rleft - k
    /\ IF rcall = "Read" \/ rleft = k
       THEN reader' = "close" /\ rret' = SZ - (rleft - k)
       ELSE UNCHANGED <<reader, rret>>
    /\ UNCHANGED <<wcall, rcall, writer, wleft, wret>>

ReadInterrupted ==
    /\ reader = "read"
    /\ UNCHANGED hVars

\* A ReadN() that does not leave its loop at the end of the stream.
ReadPastEof ==
    /\ reader = "read" /\ rcall = "Read"
    /\ stream = <<>> /\ writer \in Over
    /\ reader' = "close" /\ rret' = 0
    /\ UNCHANGED <<wcall, rcall, writer, wleft, rleft, stream, got, wret>>

\* The end of the stream: what has been read so far is returned.
ReadEof ==
    /\ reader = "read"
    /\ stream = <<>> /\ writer \in Over
    /\ reader' = "close" /\ rret' = SZ - rleft
    /\ UNCHANGED <<wcall, rcall, writer, wleft, rleft, stream, got, wret>>

ReadFails ==
    /\ reader = "read"
    /\ reader' = "close" /\ rret' = -1
    /\ UNCHANGED <<wcall, rcall, writer, wleft, rleft, stream, got, wret>>

-----------------------------------------------------------------------------
\* Close(): the condition assigns errno (line 122), so a close() that fails is
\* called again for ever, on a descriptor that is gone.
CloseWriter ==
    /\ writer = "close"
    /\ writer' \in {"closed", "spinning"}
    /\ UNCHANGED <<wcall, rcall, reader, wleft, rleft, stream, got, wret, rret>>

CloseReader ==
    /\ reader = "close"
    /\ reader' \in {"closed", "spinning"}
    /\ UNCHANGED <<wcall, rcall, writer, wleft, rleft, stream, got, wret, rret>>

Writer == SetupWriter \/ WriteBroken \/ CloseWriter \/ \E k \in 1..SZ : WriteSome(k)
Reader == SetupReader \/ HAccept \/ ReadEof \/ CloseReader \/ \E k \in 1..SZ : ReadSome(k)

HNext == \/ Writer \/ WriteInterrupted \/ WriteFails
         \/ Reader \/ AcceptFails \/ ReadInterrupted \/ ReadFails

HSpec == HInit /\ [][HNext]_hVars

-----------------------------------------------------------------------------
(***************************************************************************)
(* However write() and read() split the bytes and wherever signals         *)
(* interrupt them, the reader's buffer is the writer's from its first byte *)
(* on, without a gap or a repetition, and the return values count it: a    *)
(* whole WriteN() met by ReadN() is read whole or reported as an error.    *)
(***************************************************************************)
StreamIntact ==
    /\ got \o stream = [i \in 1..(SZ - wleft) |-> i]
    /\ rret >= 0 => rret = Len(got)
    /\ wret = SZ /\ wcall = "WriteN" /\ rcall = "ReadN" => rret \in {None, -1, SZ}
=============================================================================
