---------------------------- MODULE LockPrograms ----------------------------
(***************************************************************************)
(* The record-lock programs, as steps of a process p: file_lock.c takes a  *)
(* write lock on the whole file and keeps it; t_fcntl_locking.c makes the  *)
(* one call its arguments ask for and stays; i_fcntl_locking.c makes one   *)
(* call per line of input.  A region is the set of bytes that l_whence,    *)
(* l_start and l_len name; the empty one stands for a call fcntl() or the  *)
(* argument checks refuse.                                                 *)
(***************************************************************************)
EXTENDS UnixProcess

Ops == {"GETLK", "SETLK", "SETLKW"}
Types == {"R", "W", "none"}                 \* "none" is F_UNLCK

\* exit() of process p at from.
Quit(p, from) ==
    /\ Alive(p) /\ pc[p] = from
    /\ End({p}, "exit")
    /\ UNCHANGED <<cmd, pc, signals>>

\* fcntl() succeeds at once.
Acquire(p, from, to, type, region) ==
    /\ Conflicts(p, type, region) = {} /\ region # {}
    /\ Goto(p, from, to)
    /\ SetLock(p, type, region)
    /\ UNCHANGED <<cmd, fate, signals, wants>>

-----------------------------------------------------------------------------
\* A file_lock.c that does not look at what fcntl() returns.
FileLockUnchecked(p) ==
    /\ Prog(p) = "file_lock"
    /\ \/ Acquire(p, "start", "hold", "W", Bytes)
       \/ /\ Conflicts(p, "W", Bytes) # {} /\ Goto(p, "start", "hold")
          /\ UNCHANGED <<cmd, fate, signals, table>>

\* open() may fail; so does F_SETLK if anybody holds a lock.
FileLock(p) ==
    /\ Prog(p) = "file_lock"
    /\ \/ Acquire(p, "start", "hold", "W", Bytes)
       \/ Quit(p, "start")

-----------------------------------------------------------------------------
\* t_fcntl_locking.c: every failure exits; afterwards the process stays.
TFcntl(p) ==
    /\ Prog(p) = "t_fcntl_locking"
    /\ LET op == cmd[p].op
           type == cmd[p].type
           region == cmd[p].region
       IN \/ Quit(p, "start")
          \/ /\ op = "GETLK" /\ type # "none" /\ region # {}
             /\ Goto(p, "start", "hold")
             /\ UNCHANGED <<cmd, fate, signals, table>>
          \/ op # "GETLK" /\ Acquire(p, "start", "hold", type, region)
          \/ /\ op = "SETLKW" /\ Conflicts(p, type, region) # {}
             /\ ~WouldDeadlock(p, type, region)
             /\ BlockFor(p, "start", type, region)

TFcntlGranted(p) == Prog(p) = "t_fcntl_locking" /\ Granted(p, "hold")

-----------------------------------------------------------------------------
(* i_fcntl_locking.c.  Lines it rejects, "?" and F_GETLK that succeeds      *)
(* change nothing; what F_GETLK found may be over before the next command.  *)

Open(p) ==
    /\ Prog(p) = "i_fcntl_locking"
    /\ \/ Quit(p, "start")
       \/ Goto(p, "start", "prompt") /\ UNCHANGED <<cmd, fate, signals, table>>

\* The end of the input; and F_GETLK that fails, as it does for type u.
Leave(p) == Prog(p) = "i_fcntl_locking" /\ Quit(p, "prompt")

\* A command: EAGAIN, EDEADLK and other errors are reported, and the next line
\* is read.  The message for EAGAIN has a %s without an argument (line 113):
\* what printf() does is undefined, and it may end the process.
Command(p, op, type, region) ==
    /\ Prog(p) = "i_fcntl_locking"
    /\ \/ Acquire(p, "prompt", "prompt", type, region)
       \/ /\ op = "SETLK" /\ Conflicts(p, type, region) # {}
          /\ Alive(p) /\ pc[p] = "prompt"
          /\ End({p}, "crash")
          /\ UNCHANGED <<cmd, pc, signals>>
       \/ /\ op = "SETLKW" /\ Conflicts(p, type, region) # {}
          /\ ~WouldDeadlock(p, type, region)
          /\ BlockFor(p, "prompt", type, region)

CommandGranted(p) == Prog(p) = "i_fcntl_locking" /\ Granted(p, "prompt")
=============================================================================
