--------------------------- MODULE ProcessSystem ----------------------------
(***************************************************************************)
(* Processes that run the signal and record-lock programs side by side:    *)
(* they send each other signals, kill each other and compete for the       *)
(* locks of one file.                                                      *)
(***************************************************************************)
EXTENDS SignalPrograms, LockPrograms

\* Bound: no scenario has more processes.
MaxProcesses == 4

systemVars == <<cmd, pc, fate, signals, table, local>>

SystemInit == ProcessInit /\ SignalInit

\* The steps a process takes by itself.
SignalStep(p) ==
    Abort(p) \/ SimpleSuspend(p) \/ Sigqueue(p) \/ Daemon(p) \/ Killfrom(p)

LockStep(p) ==
    /\ FileLock(p) \/ TFcntl(p) \/ TFcntlGranted(p) \/ Open(p) \/ CommandGranted(p)
    /\ UNCHANGED local

\* What the user types into i_fcntl_locking.c.
UserStep(p) ==
    /\ \/ Leave(p)
       \/ \E op \in {"SETLK", "SETLKW"}, type \in Types, region \in SUBSET Bytes :
             Command(p, op, type, region)
    /\ UNCHANGED local

\* A process that holds its lock, sleeps or waits for input stays as it is.
Idle == UNCHANGED systemVars

SystemNext ==
    \/ \E p \in Pid : SignalStep(p) \/ LockStep(p) \/ UserStep(p)
    \/ \E p \in Pid : Expire(p) /\ UNCHANGED local
    \/ \E p \in Pid : \E s \in Signals : Deliver(p, s)
    \/ Idle

(***************************************************************************)
(* Every process that can run is run, and a deliverable signal delivered.  *)
(* Nobody has to type, and no timer has to expire.                         *)
(***************************************************************************)
SystemSpec ==
    /\ SystemInit /\ [][SystemNext]_systemVars
    /\ \A p \in 1..MaxProcesses :
          /\ WF_systemVars(p \in Pid /\ (SignalStep(p) \/ LockStep(p)))
          /\ WF_systemVars(p \in Pid /\ \E s \in Signals : Deliver(p, s))

-----------------------------------------------------------------------------
(***************************************************************************)
(* abort.c: whatever the disposition, the handler's mask and the mask of   *)
(* the process, and whenever another process sends SIGABRT as well, the    *)
(* process is terminated by the signal: exit(1) at line 58 is never        *)
(* reached.                                                                *)
(***************************************************************************)
AbortBySignal ==
    \A p \in Pid : Prog(p) \in {"abort", "abort_call"} =>
        fate[p] \in {"running", "ABRT", "KILL", "errExit"}

(***************************************************************************)
(* simpleSuspend.c: a signal of BlockSet that is sent any time after the   *)
(* signals are blocked, even before sigsuspend(), ends the wait and the    *)
(* program, unless the inherited mask blocks it.                           *)
(***************************************************************************)
SuspendWakes ==
    \A p \in 1..MaxProcesses :
        (/\ p \in Pid /\ Prog(p) = "simpleSuspend" /\ pc[p] # "start"
         /\ (pend[p] \intersect BlockSet) \ saved[p] # {})
        ~> p \in Pid /\ ~Alive(p)

(***************************************************************************)
(* daemon_1.c: the timer is armed before its handler is installed.  The    *)
(* alarm kills the daemon in that window (line 53 to 59) and never later.  *)
(***************************************************************************)
AlarmKillsOnlyEarly ==
    \A p \in Pid : Prog(p) = "daemon_1" /\ fate[p] = "ALRM" => pc[p] = "sigaction"

(***************************************************************************)
(* daemon_1.c and killfrom.c: kill(0, SIGKILL) to the group the daemon was *)
(* started in reaches it only before setsid() (line 42), or if setsid()    *)
(* failed because the daemon is the leader of the group, left over from a  *)
(* failed fork().  Otherwise only a loop that passed its own pid kills it. *)
(***************************************************************************)
GroupKillMissesDaemon ==
    \A p \in Pid : Prog(p) = "daemon_1" /\ fate[p] = "KILL" =>
        \/ pc[p] = "start"
        \/ cmd[p].leader
        \/ \E k \in Pid : Prog(k) = "killfrom" /\ p \in cmd[k].from..(idx[k] - 1)

(***************************************************************************)
(* A process that stays after it set a lock (file_lock.c, and              *)
(* t_fcntl_locking.c with F_SETLK or F_SETLKW) has that lock, and nobody   *)
(* else one that conflicts, whoever was killed, crashed or unlocked        *)
(* meanwhile.                                                              *)
(***************************************************************************)
HolderHasLock ==
    \A p \in Pid : Alive(p) /\ pc[p] = "hold" =>
        /\ Prog(p) = "file_lock" =>
              \A q \in Pid : locks[q] = [b \in Bytes |-> IF q = p THEN "W" ELSE "none"]
        /\ Prog(p) = "t_fcntl_locking" /\ cmd[p].op # "GETLK" =>
              /\ \A b \in cmd[p].region : locks[p][b] = cmd[p].type
              /\ Conflicts(p, cmd[p].type, cmd[p].region) = {}

(***************************************************************************)
(* When killfrom.c has run over the pids of all other lock programs and    *)
(* survived, a process blocked in F_SETLKW gets its lock: a killed holder  *)
(* leaves no lock behind, and a killed waiter no wait.                     *)
(***************************************************************************)
KillFreesWaiters ==
    \A p \in 1..MaxProcesses :
        (/\ p \in Pid /\ Alive(p) /\ pc[p] = "wait"
         /\ \E k \in Pid \ {p} : /\ Prog(k) = "killfrom" /\ fate[k] = "exit"
                                /\ Pid \ {p, k} \subseteq cmd[k].from..cmd[k].to)
        ~> p \in Pid /\ (pc[p] # "wait" \/ ~Alive(p))
=============================================================================
