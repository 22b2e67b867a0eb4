---------------------------- MODULE UnixProcess -----------------------------
(***************************************************************************)
(* What the kernel keeps for each process and the calls the signal and     *)
(* record-lock programs make.  The kernel is not part of the repository:   *)
(* these operators state the contract of those calls.  A standard signal   *)
(* is pending or not, however often it is sent; the default action of      *)
(* every signal here is to terminate.  cmd gives each process its command  *)
(* line; the programs themselves are SignalPrograms and LockPrograms.      *)
(***************************************************************************)
EXTENDS Integers

CONSTANTS
    Scenarios,          \* the sets of command lines: sequences of records
    Bytes               \* the positions of the file that locks tell apart

VARIABLES
    cmd,                \* the command line of each process, fixed at start
    pc,                 \* where each process is
    fate,               \* "running", or how it ended
    disp,               \* its disposition of each signal
    mask,               \* the signals it blocks
    pend,               \* the signals pending for it
    armed,              \* has it armed its interval timer?
    locks,              \* the record lock it holds on each byte
    wants               \* the lock it waits for in F_SETLKW

Signals == {"ABRT", "USR1", "USR2", "INT", "ALRM"}
Pid == DOMAIN cmd
Prog(p) == cmd[p].prog
NoWant == [type |-> "none", region |-> {}]

(***************************************************************************)
(* A scenario: processes with positive numbers; what each inherits;        *)
(* signals and locks that exist; a first pid for killfrom.c that is not    *)
(* negative, and a last one; whether daemon_1.c leads its process group.   *)
(***************************************************************************)
ASSUME ScenariosAssumption ==
    \A c \in Scenarios :
      /\ DOMAIN c \subseteq Nat \ {0}
      /\ \A p \in DOMAIN c :
           /\ c[p].abrt \in {"DFL", "IGN", "handler"}
           /\ c[p].mask \subseteq Signals /\ c[p].samask \subseteq Signals
           /\ c[p].from \in Nat
           /\ c[p].prog = "t_sigqueue" => c[p].sig \in Signals
           /\ c[p].prog = "killfrom" => c[p].to \in Int
           /\ c[p].prog = "daemon_1" => c[p].leader \in BOOLEAN
           /\ c[p].prog = "t_fcntl_locking" =>
                c[p].type \in {"R", "W", "none"} /\ c[p].region \subseteq Bytes

(***************************************************************************)
(* abort.c is sent no other signal than SIGABRT, and daemon_1.c no SIGALRM *)
(* but that of its own timer.                                              *)
(***************************************************************************)
ASSUME SendersAssumption ==
    \A c \in Scenarios : \A p \in DOMAIN c :
      c[p].prog = "t_sigqueue" /\ c[p].pid \in DOMAIN c =>
        /\ c[c[p].pid].prog \in {"abort", "abort_call"} => c[p].sig = "ABRT"
        /\ c[c[p].pid].prog = "daemon_1" => c[p].sig # "ALRM"

signals == <<disp, mask, pend, armed>>
table == <<locks, wants>>

\* A new process: the dispositions and the mask are inherited.
ProcessInit ==
    /\ cmd \in Scenarios
    /\ pc = [p \in Pid |-> "start"]
    /\ fate = [p \in Pid |-> "running"]
    /\ disp = [p \in Pid |-> [s \in Signals |-> IF s = "ABRT" THEN cmd[p].abrt ELSE "DFL"]]
    /\ mask = [p \in Pid |-> cmd[p].mask]
    /\ pend = [p \in Pid |-> {}]
    /\ armed = [p \in Pid |-> FALSE]
    /\ locks = [p \in Pid |-> [b \in Bytes |-> "none"]]
    /\ wants = [p \in Pid |-> NoWant]

Alive(p) == fate[p] = "running"

\* Process p, at from, goes on to to.
Goto(p, from, to) ==
    /\ Alive(p)
    /\ pc[p] = from
    /\ pc' = [pc EXCEPT ![p] = to]

\* The processes of S end, in the way how; the kernel drops their locks.
End(S, how) ==
    /\ fate' = [p \in Pid |-> IF p \in S /\ Alive(p) THEN how ELSE fate[p]]
    /\ locks' = [p \in Pid |-> IF p \in S THEN [b \in Bytes |-> "none"] ELSE locks[p]]
    /\ wants' = [p \in Pid |-> IF p \in S THEN NoWant ELSE wants[p]]

Deliverable(p) == IF Alive(p) THEN pend[p] \ mask[p] ELSE {}

\* kill() or sigqueue() of signal s to process q.
Send(q, s) == pend' = [pend EXCEPT ![q] = @ \union {s}]

\* The interval timer of p expires; it starts over.
Expire(p) ==
    /\ Alive(p) /\ armed[p]
    /\ Send(p, "ALRM")
    /\ UNCHANGED <<cmd, pc, fate, disp, mask, armed, table>>

-----------------------------------------------------------------------------
\* The processes whose locks are in the way of a lock of p.
Conflicts(p, type, region) ==
    {q \in Pid \ {p} : \E b \in region :
        \/ type = "W" /\ locks[q][b] # "none"
        \/ type = "R" /\ locks[q][b] = "W"}

\* fcntl() sets the lock (type "none": removes it).
SetLock(p, type, region) ==
    locks' = [locks EXCEPT ![p] = [b \in Bytes |-> IF b \in region THEN type ELSE @[b]]]

WaitsFor(p) == Conflicts(p, wants[p].type, wants[p].region)

\* EDEADLK: every set closed under waiting that holds p's blockers holds p.
WouldDeadlock(p, type, region) ==
    \A S \in SUBSET Pid :
        /\ Conflicts(p, type, region) \subseteq S
        /\ \A q \in S : WaitsFor(q) \subseteq S
        => p \in S

\* F_SETLKW by p, which goes on at to when the lock is granted.
BlockFor(p, from, type, region) ==
    /\ Goto(p, from, "wait")
    /\ wants' = [wants EXCEPT ![p] = [type |-> type, region |-> region]]
    /\ UNCHANGED <<cmd, fate, signals, locks>>

Granted(p, to) ==
    /\ Goto(p, "wait", to)
    /\ WaitsFor(p) = {}
    /\ SetLock(p, wants[p].type, wants[p].region)
    /\ wants' = [wants EXCEPT ![p] = NoWant]
    /\ UNCHANGED <<cmd, fate, signals>>
=============================================================================
