------------------------ MODULE ProcessSystemProofs -------------------------
(***************************************************************************)
(* The signal and record-lock programs for every set of command lines: how *)
(* abort.c and daemon_1.c may end, what a process that holds a record lock *)
(* may rely on, that simpleSuspend.c loses no wakeup, and that killfrom.c  *)
(* leaves no lock behind.                                                  *)
(***************************************************************************)
EXTENDS ProcessSystem, TLAPS

AbortProgs == {"abort", "abort_call"}
LockProgs == {"file_lock", "t_fcntl_locking", "i_fcntl_locking"}

Dispositions == {"DFL", "IGN", "handler"}
Wants == [type : Types, region : SUBSET Bytes]

\* Every variable has its type.
Typed ==
    /\ cmd \in Scenarios
    /\ DOMAIN pc = Pid /\ DOMAIN fate = Pid
    /\ disp \in [Pid -> [Signals -> Dispositions]]
    /\ mask \in [Pid -> SUBSET Signals] /\ pend \in [Pid -> SUBSET Signals]
    /\ armed \in [Pid -> BOOLEAN]
    /\ locks \in [Pid -> [Bytes -> Types]] /\ wants \in [Pid -> Wants]
    /\ saved \in [Pid -> SUBSET Signals] /\ idx \in [Pid -> Int]

\* abort.c: from raise() on the saved mask is without SIGABRT, and from the
\* second kill() on a SIGABRT is deliverable and deadly.
AbortAt(p) ==
    /\ fate[p] \in {"running", "ABRT", "KILL", "errExit"}
    /\ ~armed[p] /\ pend[p] \subseteq {"ABRT"}
    /\ pc[p] \in {"raise", "restore", "set_mask", "raise_again", "give_up"} =>
         "ABRT" \notin saved[p]
    /\ pc[p] \in {"raise_again", "give_up"} => "ABRT" \notin mask[p]
    /\ pc[p] \in {"set_mask", "raise_again", "give_up"} => disp[p]["ABRT"] = "DFL"
    /\ pc[p] = "give_up" /\ Alive(p) => "ABRT" \in pend[p]

AbortInv == \A p \in Pid : Prog(p) \in AbortProgs => AbortAt(p)

\* daemon_1.c: no SIGALRM before the timer is armed, and none kills once the
\* handler is in place.
DaemonAt(p) ==
    /\ fate[p] = "ALRM" => pc[p] = "sigaction"
    /\ pc[p] \in {"start", "setitimer"} => ~armed[p] /\ "ALRM" \notin pend[p]
    /\ pc[p] = "loop" => disp[p]["ALRM"] = "handler"
    /\ pc[p] \in {"start", "setitimer", "sigaction", "loop"}

DaemonInv == \A p \in Pid : Prog(p) = "daemon_1" => DaemonAt(p)

\* The kernel grants no two locks that conflict.
Compatible ==
    \A p, q \in Pid : p # q =>
      \A b \in Bytes : locks[p][b] = "W" => locks[q][b] = "none"

\* What a lock program that is alive holds, or waits for.
HoldAt(p) ==
    Alive(p) =>
      /\ Prog(p) = "file_lock" /\ pc[p] = "hold" => \A b \in Bytes : locks[p][b] = "W"
      /\ Prog(p) = "file_lock" => pc[p] # "wait"
      /\ Prog(p) = "t_fcntl_locking" /\ pc[p] = "hold" /\ cmd[p].op # "GETLK" =>
           \A b \in cmd[p].region : locks[p][b] = cmd[p].type
      /\ Prog(p) = "t_fcntl_locking" /\ pc[p] = "wait" =>
           wants[p].type = cmd[p].type /\ wants[p].region = cmd[p].region

HoldInv == \A p \in Pid : HoldAt(p)

IndInv == Typed /\ AbortInv /\ DaemonInv /\ Compatible /\ HoldInv

-----------------------------------------------------------------------------
\* A step of process p, of the user who types for it, or of the kernel.
Step(p) ==
    \/ SignalStep(p) \/ LockStep(p) \/ UserStep(p)
    \/ Expire(p) /\ UNCHANGED local
    \/ \E s \in Signals : Deliver(p, s)

\* What the end of the processes of S does, exit() and kill() alike.
LEMMA EndEffect ==
    ASSUME Typed, UNCHANGED cmd, NEW S, NEW how, how # "running", End(S, how)
    PROVE  /\ DOMAIN fate' = Pid
           /\ locks' \in [Pid -> [Bytes -> Types]] /\ wants' \in [Pid -> Wants]
           /\ \A q \in Pid : q \in S /\ Alive(q) => fate'[q] = how
           /\ \A q \in Pid : q \notin S \/ ~Alive(q) => fate'[q] = fate[q]
           /\ \A q \in Pid : q \in S => fate'[q] # "running"
           /\ \A q \in Pid : q \in S => \A b \in Bytes : locks'[q][b] = "none"
           /\ \A q \in Pid : q \notin S => locks'[q] = locks[q] /\ wants'[q] = wants[q]
<1>1. [b \in Bytes |-> "none"] \in [Bytes -> Types] /\ NoWant \in Wants
  BY DEF Types, NoWant, Wants
<1> QED BY <1>1 DEF End, Typed, Alive, Pid

\* What fcntl() does to the locks of the caller.
LEMMA SetLockEffect ==
    ASSUME Typed, NEW p \in Pid, NEW type \in Types, NEW region, SetLock(p, type, region)
    PROVE  /\ locks' \in [Pid -> [Bytes -> Types]]
           /\ \A b \in Bytes : locks'[p][b] = IF b \in region THEN type ELSE locks[p][b]
           /\ \A q \in Pid : q # p => locks'[q] = locks[q]
<1> DEFINE new == [b \in Bytes |-> IF b \in region THEN type ELSE locks[p][b]]
<1>1. new \in [Bytes -> Types] /\ locks' = [locks EXCEPT ![p] = new]
  BY DEF Typed, SetLock
<1>2. locks'[p] = new
  BY <1>1 DEF Typed
<1> QED BY <1>1, <1>2 DEF Typed

\* The sets the parts of the signal state belong to.
DispSet == [Pid -> [Signals -> Dispositions]]
MaskSet == [Pid -> SUBSET Signals]
IdxSet  == [Pid -> Int]
FlagSet == [Pid -> BOOLEAN]

\* A process goes on and changes part of the signal state.
LEMMA GotoTyped ==
    ASSUME Typed, UNCHANGED <<cmd, fate, table>>, DOMAIN pc' = Pid,
           disp' \in DispSet, mask' \in MaskSet, pend' \in MaskSet, armed' \in FlagSet,
           saved' \in MaskSet, idx' \in IdxSet
    PROVE  Typed'
<1>1. Pid' = Pid
  BY DEF Pid
<1>3. armed' \in [Pid -> BOOLEAN]
  BY Zenon DEF FlagSet
<1> QED BY <1>1, <1>3 DEF Typed, table, DispSet, MaskSet, IdxSet

\* Processes end while the signal state stays, and perhaps a loop index.
LEMMA EndTyped ==
    ASSUME Typed, UNCHANGED <<cmd, signals, saved>>, DOMAIN pc' = Pid,
           NEW S, NEW how, how # "running", End(S, how), idx' \in IdxSet
    PROVE  Typed'
<1>1. Pid' = Pid
  BY DEF Pid
<1>2. /\ DOMAIN fate' = Pid
      /\ locks' \in [Pid -> [Bytes -> Types]] /\ wants' \in [Pid -> Wants]
  BY EndEffect
<1> QED BY <1>1, <1>2 DEF Typed, signals, IdxSet

\* The signal programs keep the types.
LEMMA SignalTyped ==
    ASSUME Typed, NEW p \in Pid, SignalStep(p)
    PROVE  Typed' /\ UNCHANGED cmd
<1>0. UNCHANGED cmd
  BY DEF SignalStep, Abort, AbortMain, Disposition, Flush, Unblock, Raise, Restore, SetMask,
     GiveUp, SimpleSuspend, Block, Install, Pending, Suspend, Resume, Sigqueue, Daemon,
     Setsid, Setitimer, Sigaction, Killfrom, Plain, Exit
<1>t. /\ disp \in DispSet /\ mask \in MaskSet /\ pend \in MaskSet /\ saved \in MaskSet
      /\ idx \in IdxSet
  BY DEF Typed, DispSet, MaskSet, IdxSet
<1>a. armed \in FlagSet
  BY Zenon DEF Typed, FlagSet
<1>p. DOMAIN pc = Pid
  BY DEF Typed
<1>g. ASSUME NEW from, NEW to, Goto(p, from, to) PROVE DOMAIN pc' = Pid
  BY <1>p, <1>g DEF Goto
<1>1. ASSUME NEW from, NEW how, Exit(p, from, how), how # "running" PROVE Typed'
  BY <1>0, <1>t, <1>p, <1>1, EndTyped DEF Exit, local
<1>2. ASSUME NEW from, NEW to, Plain(p, from, to) PROVE Typed'
  BY <1>0, <1>t, <1>a, <1>g, <1>2, GotoTyped DEF Plain, signals, local
<1>3. ASSUME AbortMain(p) PROVE Typed'
  <2>1. disp' \in DispSet
    BY <1>t, <1>3 DEF AbortMain, Dispositions, Signals, DispSet
  <2>2. saved' \in MaskSet
    BY <1>t, <1>3 DEF AbortMain, Signals, MaskSet
  <2>p. DOMAIN pc' = Pid
    BY <1>g, <1>3 DEF AbortMain
  <2> QED BY <1>0, <1>t, <1>a, <1>3, <2>1, <2>2, <2>p, GotoTyped DEF AbortMain
<1>4. ASSUME Disposition(p) PROVE Typed'
  <2>1. disp' \in DispSet
    BY <1>t, <1>4 DEF Disposition, Dispositions, Signals, DispSet
  <2>p. DOMAIN pc' = Pid
    BY <1>g, <1>4 DEF Disposition
  <2> QED BY <1>0, <1>t, <1>a, <1>4, <2>1, <2>p, GotoTyped DEF Disposition, local
<1>5. ASSUME Restore(p) PROVE Typed'
  <2>1. disp' \in DispSet
    BY <1>t, <1>5 DEF Restore, Dispositions, Signals, DispSet
  <2>p. DOMAIN pc' = Pid
    BY <1>g, <1>5 DEF Restore
  <2> QED BY <1>0, <1>t, <1>a, <1>5, <2>1, <2>p, GotoTyped DEF Restore, local
<1>6. ASSUME Unblock(p) PROVE Typed'
  <2>1. mask' \in MaskSet /\ saved' \in MaskSet
    BY <1>t, <1>6 DEF Unblock, MaskSet
  <2>p. DOMAIN pc' = Pid
    BY <1>g, <1>6 DEF Unblock
  <2> QED BY <1>0, <1>t, <1>a, <1>6, <2>1, <2>p, GotoTyped DEF Unblock
<1>7. ASSUME SetMask(p) \/ Suspend(p) \/ Resume(p) PROVE Typed'
  <2>1. mask' \in MaskSet
    BY <1>t, <1>7 DEF SetMask, Suspend, Resume, BlockSet, Signals, MaskSet
  <2>p. DOMAIN pc' = Pid
    BY <1>g, <1>7 DEF SetMask, Suspend, Resume
  <2> QED BY <1>0, <1>t, <1>a, <1>7, <2>1, <2>p, GotoTyped DEF SetMask, Suspend, Resume, local
<1>8. ASSUME Raise(p) PROVE Typed'
  <2>1. pend' \in MaskSet
    BY <1>t, <1>8 DEF Raise, Send, Signals, MaskSet
  <2>p. DOMAIN pc' = Pid
    BY <1>g, <1>8 DEF Raise
  <2> QED BY <1>0, <1>t, <1>a, <1>8, <2>1, <2>p, GotoTyped DEF Raise, local
<1>9. ASSUME Block(p) PROVE Typed'
  <2>1. mask' \in MaskSet /\ saved' \in MaskSet
    BY <1>t, <1>9 DEF Block, BlockSet, Signals, MaskSet
  <2>p. DOMAIN pc' = Pid
    BY <1>g, <1>9 DEF Block
  <2> QED BY <1>0, <1>t, <1>a, <1>9, <2>1, <2>p, GotoTyped DEF Block
<1>10. ASSUME Install(p) PROVE Typed'
  <2>1. disp' \in DispSet
    BY <1>t, <1>10 DEF Install, Dispositions, DispSet
  <2>p. DOMAIN pc' = Pid
    BY <1>g, <1>10 DEF Install
  <2> QED BY <1>0, <1>t, <1>a, <1>10, <2>1, <2>p, GotoTyped DEF Install, local
<1>11. ASSUME Setitimer(p) PROVE Typed'
  <2>1. armed' \in FlagSet
    BY <1>a, <1>11, Zenon DEF Setitimer, FlagSet
  <2>p. DOMAIN pc' = Pid
    BY <1>g, <1>11 DEF Setitimer
  <2> QED BY <1>0, <1>t, <1>11, <2>1, <2>p, GotoTyped DEF Setitimer, local
<1>12. ASSUME Sigaction(p) PROVE Typed'
  <2>1. disp' \in DispSet
    BY <1>t, <1>12 DEF Sigaction, Dispositions, DispSet
  <2>p. DOMAIN pc' = Pid
    BY <1>g, <1>12 DEF Sigaction
  <2> QED BY <1>0, <1>t, <1>a, <1>12, <2>1, <2>p, GotoTyped DEF Sigaction, local
<1>13. ASSUME Sigqueue(p) PROVE Typed'
  <2>1. cmd[p].sig \in Signals
    BY <1>13, ScenariosAssumption DEF Sigqueue, Prog, Typed, Pid
  <2>2. CASE /\ Goto(p, "start", "start") /\ Send(cmd[p].pid, cmd[p].sig)
             /\ idx' = [idx EXCEPT ![p] = @ + 1]
             /\ UNCHANGED <<cmd, fate, disp, mask, armed, table, saved>>
    <3>1. pend' \in MaskSet
      BY <1>t, <2>1, <2>2 DEF Send, MaskSet
    <3>2. idx' \in IdxSet
      BY <1>t, <2>2 DEF IdxSet
    <3>3. DOMAIN pc' = Pid
      BY <1>g, <2>2
    <3> QED BY <1>0, <1>t, <1>a, <2>2, <3>1, <3>2, <3>3, GotoTyped
  <2> QED BY <1>1, <1>13, <2>2 DEF Sigqueue
<1>14. ASSUME Killfrom(p) PROVE Typed'
  <2>1. CASE /\ Goto(p, "start", "start") /\ End(Victims(idx[p]), "KILL")
             /\ idx' = [idx EXCEPT ![p] = @ + 1] /\ UNCHANGED <<cmd, signals, saved>>
    <3>1. idx' \in IdxSet
      BY <1>t, <2>1 DEF IdxSet
    <3>2. DOMAIN pc' = Pid
      BY <1>p, <2>1 DEF Goto
    <3> QED BY <2>1, <3>1, <3>2, EndTyped
  <2> QED BY <1>1, <1>14, <2>1 DEF Killfrom
<1>15. ASSUME Flush(p) \/ GiveUp(p) \/ Exit(p, "report", "exit") \/ Pending(p)
       PROVE  Typed'
  BY <1>1, <1>2, <1>15 DEF Flush, GiveUp, Pending
<1>16. ASSUME Setsid(p) PROVE Typed'
  BY <1>0, <1>t, <1>a, <1>g, <1>16, GotoTyped DEF Setsid, signals
<1> QED BY <1>0, <1>3, <1>4, <1>5, <1>6, <1>7, <1>8, <1>9, <1>10, <1>11, <1>12, <1>13, <1>14,
           <1>15, <1>16 DEF SignalStep, Abort, SimpleSuspend, Daemon

\* The lock programs keep the types.
LEMMA LockTyped ==
    ASSUME Typed, NEW p \in Pid, LockStep(p) \/ UserStep(p)
    PROVE  Typed' /\ UNCHANGED <<cmd, signals, local>>
<1>0. UNCHANGED <<cmd, signals, local>>
  BY DEF LockStep, UserStep, FileLock, TFcntl, TFcntlGranted, Open, CommandGranted, Leave,
     Command, Quit, Acquire, BlockFor, Granted
<1>1. Pid' = Pid /\ idx' \in IdxSet /\ DOMAIN pc = Pid
  BY <1>0 DEF Pid, local, Typed, IdxSet
<1>2. ASSUME NEW how, how # "running", End({p}, how), UNCHANGED pc PROVE Typed'
  BY <1>0, <1>1, <1>2, EndTyped DEF local
<1>3. ASSUME DOMAIN pc' = Pid, UNCHANGED fate,
             locks' \in [Pid -> [Bytes -> Types]], wants' \in [Pid -> Wants]
      PROVE  Typed'
  BY <1>0, <1>1, <1>3 DEF Typed, signals, local
<1>4. ASSUME NEW from, NEW to, Goto(p, from, to) PROVE DOMAIN pc' = Pid
  BY <1>1, <1>4 DEF Goto
<1>5. locks \in [Pid -> [Bytes -> Types]] /\ wants \in [Pid -> Wants]
  BY DEF Typed
<1>6. ASSUME NEW from, Quit(p, from) PROVE Typed'
  BY <1>2, <1>6 DEF Quit
<1>7. ASSUME NEW from, NEW to, NEW type \in Types, NEW region, Acquire(p, from, to, type, region)
      PROVE  Typed'
  BY <1>3, <1>4, <1>5, <1>7, SetLockEffect DEF Acquire
<1>8. ASSUME NEW from, NEW type \in Types, NEW region \in SUBSET Bytes,
             BlockFor(p, from, type, region)
      PROVE  Typed'
  <2>1. [type |-> type, region |-> region] \in Wants
    BY DEF Wants
  <2>2. wants' \in [Pid -> Wants]
    BY <1>5, <1>8, <2>1 DEF BlockFor
  <2> QED BY <1>3, <1>4, <1>5, <1>8, <2>2 DEF BlockFor
<1>9. ASSUME NEW to, Granted(p, to) PROVE Typed'
  <2>1. NoWant \in Wants /\ wants[p].type \in Types
    BY <1>5 DEF Wants, NoWant, Types
  <2>2. wants' \in [Pid -> Wants]
    BY <1>5, <1>9, <2>1 DEF Granted
  <2>3. locks' \in [Pid -> [Bytes -> Types]]
    BY <1>9, <2>1, SetLockEffect DEF Granted
  <2> QED BY <1>3, <1>4, <1>9, <2>2, <2>3 DEF Granted
<1>10. ASSUME FileLock(p) PROVE Typed'
  BY <1>6, <1>7, <1>10 DEF FileLock, Types
<1>11. ASSUME TFcntl(p) PROVE Typed'
  <2>1. cmd[p].type \in Types /\ cmd[p].region \in SUBSET Bytes
    BY <1>11, ScenariosAssumption DEF TFcntl, Prog, Typed, Pid, Types
  <2>2. CASE Goto(p, "start", "hold") /\ UNCHANGED <<fate, table>>
    BY <1>3, <1>4, <1>5, <2>2 DEF table
  <2> QED BY <1>6, <1>7, <1>8, <1>11, <2>1, <2>2 DEF TFcntl
<1>12. ASSUME TFcntlGranted(p) \/ CommandGranted(p) PROVE Typed'
  BY <1>9, <1>12 DEF TFcntlGranted, CommandGranted
<1>13. ASSUME Open(p) \/ Leave(p) PROVE Typed'
  BY <1>3, <1>4, <1>5, <1>6, <1>13 DEF Open, Leave, table
<1>14. ASSUME NEW op, NEW type \in Types, NEW region \in SUBSET Bytes,
              Command(p, op, type, region)
       PROVE  Typed'
  BY <1>2, <1>7, <1>8, <1>14 DEF Command
<1> QED BY <1>0, <1>10, <1>11, <1>12, <1>13, <1>14 DEF LockStep, UserStep

\* Delivering a signal, and the expiry of a timer, keep the types.
LEMMA KernelTyped ==
    ASSUME Typed, NEW p \in Pid,
           (Expire(p) /\ UNCHANGED local) \/ \E s \in Signals : Deliver(p, s)
    PROVE  Typed' /\ UNCHANGED cmd
<1>0. UNCHANGED <<cmd, disp, mask, armed, local>>
  BY DEF Expire, Deliver
<1>t. /\ disp' \in DispSet /\ mask' \in MaskSet /\ saved' \in MaskSet /\ idx' \in IdxSet
      /\ pend \in MaskSet /\ DOMAIN pc = Pid
  BY <1>0 DEF Typed, DispSet, MaskSet, IdxSet, local
<1>a. armed' \in FlagSet
  BY <1>0, Zenon DEF Typed, FlagSet
<1>1. pend' \in MaskSet
  BY <1>t DEF Expire, Deliver, Send, Signals, MaskSet
<1>2. DOMAIN pc' = Pid
  BY <1>t DEF Expire, Deliver
<1>3. CASE UNCHANGED <<fate, table>>
  BY <1>0, <1>t, <1>a, <1>1, <1>2, <1>3, GotoTyped
<1>4. ASSUME NEW how, how # "running", End({p}, how) PROVE Typed'
  <2>1. /\ DOMAIN fate' = Pid
        /\ locks' \in [Pid -> [Bytes -> Types]] /\ wants' \in [Pid -> Wants]
    BY <1>0, <1>4, EndEffect
  <2>2. Pid' = Pid /\ armed' \in [Pid -> BOOLEAN]
    BY <1>0, <1>a, Zenon DEF Pid, FlagSet
  <2> QED BY <1>0, <1>t, <1>1, <1>2, <2>1, <2>2 DEF Typed, DispSet, MaskSet, IdxSet
<1>5. \A s \in Signals : s # "running"
  BY DEF Signals
<1> QED BY <1>0, <1>3, <1>4, <1>5 DEF Expire, Deliver, table

-----------------------------------------------------------------------------
\* What process q keeps while another process takes a step.
Untouched(q) ==
    /\ pc'[q] = pc[q] /\ disp'[q] = disp[q] /\ mask'[q] = mask[q] /\ armed'[q] = armed[q]
    /\ saved'[q] = saved[q] /\ idx'[q] = idx[q]

\* q may be sent a signal by t_sigqueue.c, or killed by killfrom.c.
Signalled(p, q) ==
    /\ Prog(p) = "t_sigqueue" /\ cmd[p].pid = q
    /\ pend'[q] = pend[q] \union {cmd[p].sig}
Killed(p, q) ==
    /\ Alive(q) /\ fate'[q] = "KILL" /\ Prog(p) = "killfrom"
    /\ q \in Victims(idx[p]) /\ idx'[p] = idx[p] + 1
    /\ \A b \in Bytes : locks'[q][b] = "none"

LEMMA Bystander ==
    ASSUME Typed, NEW p \in Pid, NEW q \in Pid, p # q, Step(p)
    PROVE  /\ Untouched(q)
           /\ pend'[q] = pend[q] \/ Signalled(p, q)
           /\ fate'[q] = fate[q] \/ Killed(p, q)
           /\ \/ locks'[q] = locks[q] /\ wants'[q] = wants[q]
              \/ fate'[q] # "running" /\ \A b \in Bytes : locks'[q][b] = "none"
<1> DEFINE Goal == /\ Untouched(q)
                   /\ pend'[q] = pend[q] \/ Signalled(p, q)
                   /\ fate'[q] = fate[q] \/ Killed(p, q)
                   /\ \/ locks'[q] = locks[q] /\ wants'[q] = wants[q]
                      \/ fate'[q] # "running" /\ \A b \in Bytes : locks'[q][b] = "none"
<1>t. /\ DOMAIN pc = Pid /\ disp \in DispSet /\ mask \in MaskSet /\ pend \in MaskSet
      /\ saved \in MaskSet /\ idx \in IdxSet /\ DOMAIN armed = Pid
  BY DEF Typed, DispSet, MaskSet, IdxSet
<1>0. UNCHANGED cmd
  BY SignalTyped, LockTyped, KernelTyped DEF Step
<1>1. ASSUME NEW how, how # "running", End({p}, how)
      PROVE  fate'[q] = fate[q] /\ locks'[q] = locks[q] /\ wants'[q] = wants[q]
  BY <1>0, <1>1, EndEffect
<1>2. ASSUME NEW from, NEW to, Goto(p, from, to) PROVE pc'[q] = pc[q]
  BY <1>t, <1>2 DEF Goto
<1>3. CASE LockStep(p) \/ UserStep(p)
  <2>1. UNCHANGED <<signals, local>>
    BY <1>3, LockTyped
  <2>2. ASSUME NEW how, how # "running", End({p}, how), UNCHANGED pc PROVE Goal
    BY <1>1, <2>1, <2>2 DEF Untouched, signals, local
  <2>3. ASSUME NEW from, NEW to, Goto(p, from, to), UNCHANGED fate,
               locks'[q] = locks[q], wants'[q] = wants[q]
        PROVE  Goal
    BY <1>2, <2>1, <2>3 DEF Untouched, signals, local
  <2>4. ASSUME NEW type, NEW region, SetLock(p, type, region) PROVE locks'[q] = locks[q]
    BY <2>4 DEF SetLock, Typed
  <2>5. ASSUME NEW from, NEW to, NEW type, NEW region, Acquire(p, from, to, type, region)
        PROVE  Goal
    BY <2>3, <2>4, <2>5 DEF Acquire
  <2>6. ASSUME NEW from, NEW type, NEW region, BlockFor(p, from, type, region) PROVE Goal
    <3>1. wants'[q] = wants[q]
      BY <2>6 DEF BlockFor, Typed
    <3> QED BY <2>3, <2>6, <3>1 DEF BlockFor
  <2>7. ASSUME NEW to, Granted(p, to) PROVE Goal
    <3>1. wants'[q] = wants[q]
      BY <2>7 DEF Granted, Typed
    <3> QED BY <2>3, <2>4, <2>7, <3>1 DEF Granted
  <2>8. ASSUME NEW from, NEW to, Goto(p, from, to), UNCHANGED <<fate, table>> PROVE Goal
    BY <2>3, <2>8 DEF table
  <2>9. ASSUME NEW from, Quit(p, from) PROVE Goal
    BY <2>2, <2>9 DEF Quit
  <2>10. CASE FileLock(p)
    BY <2>5, <2>9, <2>10 DEF FileLock
  <2>11. CASE TFcntl(p)
    BY <2>5, <2>6, <2>8, <2>9, <2>11 DEF TFcntl
  <2>12. CASE TFcntlGranted(p) \/ CommandGranted(p)
    BY <2>7, <2>12 DEF TFcntlGranted, CommandGranted
  <2>13. CASE Open(p) \/ Leave(p)
    BY <2>8, <2>9, <2>13 DEF Open, Leave
  <2>14. ASSUME NEW op, NEW type, NEW region, Command(p, op, type, region) PROVE Goal
    BY <2>2, <2>5, <2>6, <2>14 DEF Command
  <2> QED BY <1>3, <2>10, <2>11, <2>12, <2>13, <2>14 DEF LockStep, UserStep
<1>4. CASE (Expire(p) /\ UNCHANGED local) \/ \E s \in Signals : Deliver(p, s)
  <2>1. UNCHANGED <<disp, mask, armed, local>>
    BY <1>4 DEF Expire, Deliver
  <2>2. pc'[q] = pc[q] /\ pend'[q] = pend[q]
    BY <1>4, <1>t DEF Expire, Deliver, Send, MaskSet
  <2>3. fate'[q] = fate[q] /\ locks'[q] = locks[q] /\ wants'[q] = wants[q]
    <3>1. \A s \in Signals : s # "running"
      BY DEF Signals
    <3> QED BY <1>1, <1>4, <3>1 DEF Expire, Deliver, table
  <2> QED BY <2>1, <2>2, <2>3 DEF Untouched, local
<1>5. CASE SignalStep(p)
  <2>1. ASSUME NEW from, NEW how, Exit(p, from, how), how # "running" PROVE Goal
    BY <1>1, <2>1 DEF Exit, Untouched, signals, local
  <2>2. ASSUME NEW from, NEW to, Goto(p, from, to), UNCHANGED <<fate, table>>,
               disp'[q] = disp[q], mask'[q] = mask[q], pend'[q] = pend[q],
               armed'[q] = armed[q], saved'[q] = saved[q], idx'[q] = idx[q]
        PROVE  Goal
    BY <1>2, <2>2 DEF Untouched, table
  <2>3. ASSUME NEW from, NEW to, Plain(p, from, to) PROVE Goal
    BY <2>2, <2>3 DEF Plain, signals, local
  <2>4. CASE AbortMain(p) \/ Disposition(p) \/ Restore(p) \/ Install(p) \/ Sigaction(p)
    <3>1. disp'[q] = disp[q] /\ saved'[q] = saved[q]
      BY <1>t, <2>4 DEF AbortMain, Disposition, Restore, Install, Sigaction, DispSet, MaskSet, local
    <3> QED BY <2>2, <2>4, <3>1 DEF AbortMain, Disposition, Restore, Install, Sigaction, local
  <2>5. CASE Unblock(p) \/ SetMask(p) \/ Block(p) \/ Suspend(p) \/ Resume(p)
    <3>1. mask'[q] = mask[q] /\ saved'[q] = saved[q]
      BY <1>t, <2>5 DEF Unblock, SetMask, Block, Suspend, Resume, MaskSet, local
    <3> QED BY <2>2, <2>5, <3>1 DEF Unblock, SetMask, Block, Suspend, Resume, local
  <2>6. CASE Raise(p)
    <3>1. pend'[q] = pend[q]
      BY <1>t, <2>6 DEF Raise, Send, MaskSet
    <3> QED BY <2>2, <2>6, <3>1 DEF Raise, local
  <2>7. CASE Setitimer(p)
    <3>1. armed'[q] = armed[q]
      BY <1>t, <2>7 DEF Setitimer
    <3> QED BY <2>2, <2>7, <3>1 DEF Setitimer, local
  <2>8. CASE Flush(p) \/ GiveUp(p) \/ Pending(p) \/ Exit(p, "report", "exit")
    BY <2>1, <2>3, <2>8 DEF Flush, GiveUp, Pending
  <2>11. CASE Setsid(p)
    BY <2>2, <2>11 DEF Setsid, signals
  <2>9. CASE Sigqueue(p)
    <3>1. CASE /\ Goto(p, "start", "start") /\ Send(cmd[p].pid, cmd[p].sig)
               /\ idx' = [idx EXCEPT ![p] = @ + 1]
               /\ UNCHANGED <<cmd, fate, disp, mask, armed, table, saved>>
      <4>1. pend'[q] = pend[q] \/ (cmd[p].pid = q /\ pend'[q] = pend[q] \union {cmd[p].sig})
        BY <1>t, <3>1 DEF Send, MaskSet
      <4>2. pend'[q] = pend[q] \/ Signalled(p, q)
        BY <2>9, <4>1 DEF Signalled, Sigqueue
      <4>3. idx'[q] = idx[q]
        BY <1>t, <3>1 DEF IdxSet
      <4> QED BY <1>2, <3>1, <4>2, <4>3 DEF Untouched, table
    <3> QED BY <2>1, <2>9, <3>1 DEF Sigqueue
  <2>10. CASE Killfrom(p)
    <3>1. CASE /\ Goto(p, "start", "start") /\ End(Victims(idx[p]), "KILL")
               /\ idx' = [idx EXCEPT ![p] = @ + 1] /\ UNCHANGED <<cmd, signals, saved>>
      <4>1. /\ q \in Victims(idx[p]) /\ Alive(q) => fate'[q] = "KILL"
            /\ q \notin Victims(idx[p]) \/ ~Alive(q) => fate'[q] = fate[q]
            /\ q \in Victims(idx[p]) => fate'[q] # "running" /\ \A b \in Bytes : locks'[q][b] = "none"
            /\ q \notin Victims(idx[p]) => locks'[q] = locks[q] /\ wants'[q] = wants[q]
        BY <3>1, EndEffect
      <4>2. idx'[q] = idx[q] /\ idx'[p] = idx[p] + 1
        BY <1>t, <3>1 DEF IdxSet
      <4>3. fate'[q] = fate[q] \/ Killed(p, q)
        BY <2>10, <4>1, <4>2 DEF Killed, Killfrom
      <4> QED BY <1>2, <3>1, <4>1, <4>2, <4>3 DEF Untouched, signals
    <3> QED BY <2>1, <2>10, <3>1 DEF Killfrom
  <2> QED BY <1>5, <2>4, <2>5, <2>6, <2>7, <2>8, <2>9, <2>10, <2>11
          DEF SignalStep, Abort, SimpleSuspend, Daemon
<1> QED BY <1>3, <1>4, <1>5 DEF Step

-----------------------------------------------------------------------------
\* abort.c runs on, receives SIGABRT or is killed.
LEMMA AbortStep ==
    ASSUME IndInv, NEW p \in Pid, Step(p), UNCHANGED cmd, NEW q \in Pid, Prog(q) \in AbortProgs
    PROVE  AbortAt(q)'
<1> USE DEF AbortProgs
<1>0. Typed /\ AbortAt(q)
  BY DEF IndInv, AbortInv
<1>t. /\ DOMAIN pc = Pid /\ disp \in DispSet /\ mask \in MaskSet /\ pend \in MaskSet
      /\ saved \in MaskSet /\ DOMAIN armed = Pid
  BY <1>0 DEF Typed, DispSet, MaskSet
<1>1. CASE p # q
  <2>1. /\ Untouched(q)
        /\ pend'[q] = pend[q] \/ Signalled(p, q)
        /\ fate'[q] = fate[q] \/ Killed(p, q)
    BY <1>0, <1>1, Bystander
  <2>2. Signalled(p, q) => cmd[p].sig = "ABRT"
    BY <1>0, SendersAssumption DEF Signalled, Prog, Typed, Pid
  <2>3. pend[q] \subseteq pend'[q] /\ pend'[q] \subseteq {"ABRT"}
    BY <1>0, <2>1, <2>2 DEF Signalled, AbortAt
  <2>4. fate'[q] = fate[q] \/ (fate'[q] = "KILL" /\ fate[q] = "running")
    BY <2>1 DEF Killed, Alive
  <2> QED BY <1>0, <2>1, <2>3, <2>4 DEF Untouched, AbortAt, Alive
<1>2. CASE p = q
  <2>0. ~LockStep(q) /\ ~UserStep(q) /\ ~(Expire(q) /\ UNCHANGED local)
    BY <1>0 DEF LockStep, UserStep, FileLock, TFcntl, TFcntlGranted, Open, CommandGranted,
       Leave, Command, Expire, AbortAt
  <2>1. ASSUME NEW how, how # "running", End({q}, how) PROVE Alive(q) => fate'[q] = how
    BY <1>0, <2>1, EndEffect
  <2>2. ASSUME NEW from, NEW to, Goto(q, from, to)
        PROVE  pc[q] = from /\ pc'[q] = to /\ Alive(q)
    BY <1>t, <2>2 DEF Goto
  <2>3. CASE \E s \in Signals : Deliver(q, s)
    <3>1. PICK s \in Signals : Deliver(q, s)
      BY <2>3
    <3>2. s = "ABRT" /\ Alive(q) /\ "ABRT" \notin mask[q]
      BY <1>0, <3>1 DEF Deliver, Deliverable, AbortAt
    <3>3. /\ UNCHANGED <<disp, mask, armed, saved>> /\ pend'[q] \subseteq {"ABRT"}
      BY <1>0, <1>t, <3>1 DEF Deliver, local, MaskSet, AbortAt
    <3>4. CASE disp[q]["ABRT"] = "DFL" /\ End({q}, "ABRT") /\ UNCHANGED pc
      <4>1. fate'[q] = "ABRT"
        BY <2>1, <3>2, <3>4
      <4> QED BY <1>0, <3>3, <3>4, <4>1 DEF AbortAt, Alive
    <3>5. CASE disp[q]["ABRT"] # "DFL" /\ UNCHANGED fate
      <4>1. pc'[q] = pc[q] \/ pc'[q] = "woken"
        BY <1>t, <3>1 DEF Deliver
      <4>2. pc[q] \notin {"set_mask", "raise_again", "give_up"}
        BY <1>0, <3>5 DEF AbortAt
      <4> QED BY <1>0, <3>3, <3>5, <4>1, <4>2 DEF AbortAt, Alive
    <3> QED BY <3>1, <3>2, <3>4, <3>5 DEF Deliver
  <2>4. CASE AbortMain(q)
    <3>1. pc'[q] = "disposition" /\ UNCHANGED <<fate, mask, pend, armed>>
      BY <2>2, <2>4 DEF AbortMain
    <3> QED BY <1>0, <3>1 DEF AbortAt
  <2>5. CASE Disposition(q)
    <3>1. pc'[q] = "flush" /\ UNCHANGED <<fate, mask, pend, armed>>
      BY <2>2, <2>5 DEF Disposition
    <3> QED BY <1>0, <3>1 DEF AbortAt
  <2>6. CASE Flush(q)
    <3>1. CASE Plain(q, "flush", "unblock")
      <4>1. pc'[q] = "unblock" /\ UNCHANGED <<fate, mask, pend, armed>>
        BY <2>2, <3>1 DEF Plain, signals
      <4> QED BY <1>0, <4>1 DEF AbortAt
    <3>2. CASE Exit(q, "flush", "errExit")
      <4>1. fate'[q] = "errExit" /\ UNCHANGED <<pc, disp, mask, pend, armed, saved>>
        BY <2>1, <3>2 DEF Exit, signals, local
      <4> QED BY <1>0, <4>1 DEF AbortAt, Alive
    <3> QED BY <2>6, <3>1, <3>2 DEF Flush
  <2>7. CASE Unblock(q)
    <3>1. pc'[q] = "raise" /\ UNCHANGED <<fate, pend, armed>>
      BY <2>2, <2>7 DEF Unblock
    <3>2. "ABRT" \notin saved'[q]
      BY <1>t, <2>7 DEF Unblock, MaskSet
    <3> QED BY <1>0, <3>1, <3>2 DEF AbortAt
  <2>8. CASE Raise(q)
    <3>1. /\ \/ pc[q] = "raise" /\ pc'[q] = "restore"
             \/ pc[q] = "raise_again" /\ pc'[q] = "give_up"
          /\ UNCHANGED <<fate, disp, mask, armed, saved>>
      BY <2>2, <2>8 DEF Raise, local
    <3>2. pend'[q] = pend[q] \union {"ABRT"}
      BY <1>t, <2>8 DEF Raise, Send, MaskSet
    <3> QED BY <1>0, <3>1, <3>2 DEF AbortAt
  <2>9. CASE Restore(q)
    <3>1. /\ pc[q] = "restore" /\ pc'[q] = "set_mask"
          /\ UNCHANGED <<fate, mask, pend, armed, saved>>
      BY <2>2, <2>9 DEF Restore, local
    <3>2. disp'[q]["ABRT"] = "DFL"
      BY <1>t, <2>9 DEF Restore, DispSet, Signals
    <3> QED BY <1>0, <3>1, <3>2 DEF AbortAt
  <2>10. CASE SetMask(q)
    <3>1. /\ pc[q] = "set_mask" /\ pc'[q] = "raise_again"
          /\ UNCHANGED <<fate, disp, pend, armed, saved>>
      BY <2>2, <2>10 DEF SetMask, local
    <3>2. mask'[q] = saved[q]
      BY <1>t, <2>10 DEF SetMask, MaskSet
    <3> QED BY <1>0, <3>1, <3>2 DEF AbortAt
  <2>11. ~GiveUp(q)
    BY <1>0 DEF GiveUp, Exit, Deliverable, AbortAt, Alive
  <2> QED BY <1>2, <2>0, <2>3, <2>4, <2>5, <2>6, <2>7, <2>8, <2>9, <2>10, <2>11
          DEF Step, SignalStep, Abort, SimpleSuspend, Sigqueue, Daemon, Killfrom
<1> QED BY <1>1, <1>2

\* daemon_1.c runs on, its timer expires, or it is signalled or killed.
LEMMA DaemonStep ==
    ASSUME IndInv, NEW p \in Pid, Step(p), UNCHANGED cmd, NEW q \in Pid, Prog(q) = "daemon_1"
    PROVE  DaemonAt(q)'
<1>0. Typed /\ DaemonAt(q)
  BY DEF IndInv, DaemonInv
<1>t. /\ DOMAIN pc = Pid /\ disp \in DispSet /\ mask \in MaskSet /\ pend \in MaskSet
      /\ idx \in IdxSet /\ DOMAIN armed = Pid /\ Pid' = Pid /\ q \in Nat
  BY <1>0, ScenariosAssumption DEF Typed, DispSet, MaskSet, IdxSet, Pid
<1>1. CASE p # q
  <2>1. /\ Untouched(q)
        /\ pend'[q] = pend[q] \/ Signalled(p, q)
        /\ fate'[q] = fate[q] \/ Killed(p, q)
    BY <1>0, <1>1, Bystander
  <2>2. Signalled(p, q) => cmd[p].sig # "ALRM"
    BY <1>0, SendersAssumption DEF Signalled, Prog, Typed, Pid
  <2>3. "ALRM" \in pend'[q] => "ALRM" \in pend[q]
    BY <2>1, <2>2 DEF Signalled
  <2>4. CASE fate'[q] = fate[q]
    BY <1>0, <2>1, <2>3, <2>4 DEF Untouched, DaemonAt
  <2>5. CASE Killed(p, q)
    BY <1>0, <2>1, <2>3, <2>5 DEF Untouched, DaemonAt, Killed
  <2> QED BY <2>1, <2>4, <2>5
<1>2. CASE p = q
  <2>0. ~LockStep(q) /\ ~UserStep(q)
    BY DEF LockStep, UserStep, FileLock, TFcntl, TFcntlGranted, Open, CommandGranted,
       Leave, Command
  <2>1. ASSUME NEW how, how # "running", End({q}, how) PROVE Alive(q) => fate'[q] = how
    BY <1>0, <2>1, EndEffect
  <2>2. ASSUME NEW from, NEW to, Goto(q, from, to)
        PROVE  pc[q] = from /\ pc'[q] = to /\ fate[q] = "running"
    BY <1>t, <2>2 DEF Goto, Alive
  <2>3. CASE \E s \in Signals : Deliver(q, s)
    <3>1. PICK s \in Signals : Deliver(q, s)
      BY <2>3
    <3>2. s \in pend[q] /\ fate[q] = "running" /\ s # "KILL" /\ s # "running"
      BY <3>1 DEF Deliver, Deliverable, Alive, Signals
    <3>3. /\ UNCHANGED <<disp, armed, idx>> /\ pend'[q] \subseteq pend[q]
      BY <1>t, <3>1 DEF Deliver, local, MaskSet
    <3>4. pc'[q] = pc[q]
      BY <1>0, <1>t, <3>1 DEF Deliver, DaemonAt
    <3>5. CASE disp[q][s] = "DFL" /\ End({q}, s)
      <4>1. fate'[q] = s
        BY <2>1, <3>2, <3>5 DEF Alive
      <4> QED BY <1>0, <3>2, <3>3, <3>4, <3>5, <4>1 DEF DaemonAt
    <3>6. CASE End({q}, "exit")
      <4>1. fate'[q] = "exit"
        BY <2>1, <3>2, <3>6 DEF Alive
      <4> QED BY <1>0, <3>3, <3>4, <4>1 DEF DaemonAt
    <3>7. CASE UNCHANGED fate
      BY <1>0, <3>2, <3>3, <3>4, <3>7 DEF DaemonAt
    <3> QED BY <3>1, <3>5, <3>6, <3>7 DEF Deliver
  <2>4. CASE Expire(q) /\ UNCHANGED local
    <3>1. UNCHANGED <<pc, fate, disp, armed>> /\ armed[q] /\ fate[q] = "running"
      BY <2>4 DEF Expire, Alive
    <3> QED BY <1>0, <3>1 DEF DaemonAt
  <2>5. CASE Setsid(q)
    <3>1. /\ pc[q] = "start" /\ pc'[q] = "setitimer" /\ fate'[q] = "running"
          /\ UNCHANGED <<disp, pend, armed>>
      BY <2>2, <2>5 DEF Setsid, signals
    <3> QED BY <1>0, <3>1 DEF DaemonAt
  <2>6. CASE Setitimer(q)
    <3>1. pc'[q] = "sigaction" /\ fate'[q] = "running"
      BY <2>2, <2>6 DEF Setitimer
    <3> QED BY <3>1 DEF DaemonAt
  <2>7. CASE Sigaction(q)
    <3>1. pc'[q] = "loop" /\ fate'[q] = "running"
      BY <2>2, <2>7 DEF Sigaction
    <3>2. disp'[q]["ALRM"] = "handler"
      BY <1>t, <2>7 DEF Sigaction, DispSet, Signals
    <3> QED BY <3>1, <3>2 DEF DaemonAt
  <2> QED BY <1>2, <2>0, <2>3, <2>4, <2>5, <2>6, <2>7
          DEF Step, SignalStep, Abort, SimpleSuspend, Sigqueue, Daemon, Killfrom
<1> QED BY <1>1, <1>2

-----------------------------------------------------------------------------
\* What a step does to the locks of the process that takes it: fcntl() grants
\* a lock that conflicts with none, or the process ends.
Got(p, type, region) ==
    /\ Conflicts(p, type, region) = {}
    /\ \A b \in Bytes : locks'[p][b] = IF b \in region THEN type ELSE locks[p][b]
Gone(p) == fate'[p] # "running" /\ \A b \in Bytes : locks'[p][b] = "none"

LEMMA OwnLock ==
    ASSUME Typed, NEW p \in Pid, Step(p), UNCHANGED cmd
    PROVE  \/ Gone(p)
           \/ locks'[p] = locks[p]
           \/ \E type \in Types, region \in SUBSET Bytes : Got(p, type, region)
<1> DEFINE Goal == \/ Gone(p)
                   \/ locks'[p] = locks[p]
                   \/ \E type \in Types, region \in SUBSET Bytes : Got(p, type, region)
<1>1. ASSUME NEW S, NEW how, how # "running", End(S, how) PROVE Goal
  BY <1>1, EndEffect DEF Gone
<1>2. CASE LockStep(p) \/ UserStep(p)
  <2>1. ASSUME NEW from, NEW to, NEW type \in Types, NEW region \in SUBSET Bytes,
               Acquire(p, from, to, type, region)
        PROVE  Goal
    BY <2>1, SetLockEffect DEF Acquire, Got
  <2>2. ASSUME NEW to, Granted(p, to) PROVE Goal
    <3>1. wants[p].type \in Types /\ wants[p].region \in SUBSET Bytes
      BY DEF Typed, Wants
    <3>2. Got(p, wants[p].type, wants[p].region)
      BY <2>2, <3>1, SetLockEffect DEF Granted, WaitsFor, Got
    <3> QED BY <3>1, <3>2
  <2>3. ASSUME NEW from, Quit(p, from) PROVE Goal
    BY <1>1, <2>3 DEF Quit
  <2>4. ASSUME UNCHANGED table PROVE Goal
    BY <2>4 DEF table
  <2>5. ASSUME NEW from, NEW type, NEW region, BlockFor(p, from, type, region) PROVE Goal
    BY <2>5 DEF BlockFor
  <2>6. CASE FileLock(p)
    BY <2>1, <2>3, <2>6 DEF FileLock, Types
  <2>7. CASE TFcntl(p)
    <3>1. cmd[p].type \in Types /\ cmd[p].region \in SUBSET Bytes
      BY <2>7, ScenariosAssumption DEF TFcntl, Prog, Typed, Pid, Types
    <3> QED BY <2>1, <2>3, <2>4, <2>5, <2>7, <3>1 DEF TFcntl
  <2>8. CASE TFcntlGranted(p) \/ CommandGranted(p)
    BY <2>2, <2>8 DEF TFcntlGranted, CommandGranted
  <2>9. CASE Open(p) \/ Leave(p)
    BY <2>3, <2>4, <2>9 DEF Open, Leave
  <2>10. ASSUME NEW op, NEW type \in Types, NEW region \in SUBSET Bytes,
                Command(p, op, type, region)
         PROVE  Goal
    BY <1>1, <2>1, <2>5, <2>10 DEF Command
  <2> QED BY <1>2, <2>6, <2>7, <2>8, <2>9, <2>10 DEF LockStep, UserStep
<1>3. CASE Expire(p) /\ UNCHANGED local
  BY <1>3 DEF Expire, table
<1>4. ASSUME NEW s \in Signals, Deliver(p, s) PROVE Goal
  BY <1>1, <1>4 DEF Deliver, Signals, table
<1>5. CASE SignalStep(p)
  <2>1. \/ UNCHANGED table
        \/ \E S : \E how \in {"exit", "errExit", "gave_up", "KILL"} : End(S, how)
    BY <1>5 DEF SignalStep, Abort, AbortMain, Disposition, Flush, Unblock, Raise, Restore,
       SetMask, GiveUp, SimpleSuspend, Block, Install, Pending, Suspend, Resume, Sigqueue,
       Daemon, Setsid, Setitimer, Sigaction, Killfrom, Plain, Exit
  <2> QED BY <1>1, <2>1 DEF table
<1> QED BY <1>2, <1>3, <1>4, <1>5 DEF Step

\* No step makes two locks conflict.
LEMMA CompatibleStep ==
    ASSUME IndInv, NEW p \in Pid, Step(p), UNCHANGED cmd
    PROVE  Compatible'
<1>1. Typed /\ Compatible
  BY DEF IndInv
<1>2. \A q \in Pid : q # p => \A b \in Bytes : locks'[q][b] = locks[q][b] \/ locks'[q][b] = "none"
  BY <1>1, Bystander
<1>3. \/ \A b \in Bytes : locks'[p][b] = locks[p][b] \/ locks'[p][b] = "none"
      \/ \E type \in Types, region \in SUBSET Bytes : Got(p, type, region)
  BY <1>1, OwnLock DEF Gone
<1>4. SUFFICES ASSUME NEW q \in Pid, q # p, NEW b \in Bytes
               PROVE  /\ locks'[p][b] = "W" => locks'[q][b] = "none"
                      /\ locks'[q][b] = "W" => locks'[p][b] = "none"
  <2>1. Pid' = Pid
    BY DEF Pid
  <2>2. ASSUME NEW q \in Pid, q # p, NEW r \in Pid, r # p, q # r, NEW b \in Bytes,
               locks'[q][b] = "W"
        PROVE  locks'[r][b] = "none"
    BY <1>1, <1>2, <2>2 DEF Compatible
  <2> QED BY <1>4, <2>1, <2>2 DEF Compatible
<1>5. CASE \A c \in Bytes : locks'[p][c] = locks[p][c] \/ locks'[p][c] = "none"
  BY <1>1, <1>2, <1>4, <1>5 DEF Compatible
<1>6. ASSUME NEW type \in Types, NEW region \in SUBSET Bytes, Got(p, type, region)
      PROVE  /\ locks'[p][b] = "W" => locks'[q][b] = "none"
             /\ locks'[q][b] = "W" => locks'[p][b] = "none"
  <2>1. CASE b \notin region
    BY <1>1, <1>2, <1>4, <1>6, <2>1 DEF Compatible, Got
  <2>2. CASE b \in region
    <3>1. /\ type = "W" => locks[q][b] = "none"
          /\ type = "R" => locks[q][b] # "W"
      BY <1>4, <1>6, <2>2 DEF Got, Conflicts
    <3>2. locks'[p][b] = type
      BY <1>6, <2>2 DEF Got
    <3> QED BY <1>2, <1>4, <3>1, <3>2 DEF Types
  <2> QED BY <2>1, <2>2
<1> QED BY <1>3, <1>5, <1>6

\* A lock program keeps the lock it has, or gets the one it asked for.
LEMMA HoldStep ==
    ASSUME IndInv, NEW p \in Pid, Step(p), UNCHANGED cmd, NEW q \in Pid
    PROVE  HoldAt(q)'
<1>0. Typed /\ HoldAt(q) /\ DOMAIN pc = Pid
  BY DEF IndInv, HoldInv, Typed
<1>c. Prog(q)' = Prog(q) /\ cmd'[q] = cmd[q]
  BY DEF Prog
<1>1. ASSUME fate'[q] # "running" PROVE HoldAt(q)'
  BY <1>1 DEF HoldAt, Alive
<1>2. ASSUME Prog(q) \notin LockProgs PROVE HoldAt(q)'
  BY <1>2, <1>c DEF HoldAt, LockProgs
<1>3. ASSUME pc'[q] = pc[q] \/ pc'[q] \notin {"hold", "wait"}, fate'[q] = fate[q],
             locks'[q] = locks[q], wants'[q] = wants[q]
      PROVE  HoldAt(q)'
  BY <1>0, <1>c, <1>3 DEF HoldAt, Alive
<1>4. CASE p # q
  <2>1. /\ pc'[q] = pc[q]
        /\ fate'[q] = fate[q] \/ fate'[q] = "KILL"
        /\ \/ locks'[q] = locks[q] /\ wants'[q] = wants[q]
           \/ fate'[q] # "running"
    BY <1>0, <1>4, Bystander DEF Untouched, Killed
  <2> QED BY <1>1, <1>3, <2>1
<1>5. CASE p = q /\ (LockStep(p) \/ UserStep(p))
  <2>1. ASSUME NEW how, how # "running", End({q}, how), Alive(q) PROVE HoldAt(q)'
    BY <1>0, <1>1, <2>1, EndEffect
  <2>2. ASSUME NEW from, NEW to, Goto(q, from, to) PROVE pc'[q] = to
    BY <1>0, <2>2 DEF Goto
  <2>3. ASSUME NEW from, Quit(q, from) PROVE HoldAt(q)'
    BY <2>1, <2>3 DEF Quit
  <2>4. CASE FileLock(q)
    <3>1. CASE Acquire(q, "start", "hold", "W", Bytes)
      <4>1. pc'[q] = "hold" /\ \A b \in Bytes : locks'[q][b] = "W"
        BY <1>0, <2>2, <3>1, SetLockEffect DEF Acquire, Types
      <4> QED BY <1>c, <2>4, <4>1 DEF FileLock, HoldAt
    <3> QED BY <2>3, <2>4, <3>1 DEF FileLock
  <2>5. CASE TFcntl(q)
    <3>1. cmd[q].type \in Types /\ cmd[q].region \in SUBSET Bytes
      BY <1>0, <2>5, ScenariosAssumption DEF TFcntl, Prog, Typed, Pid, Types
    <3>2. Prog(q) = "t_fcntl_locking"
      BY <2>5 DEF TFcntl
    <3>3. CASE cmd[q].op = "GETLK" /\ Goto(q, "start", "hold")
      <4>1. pc'[q] = "hold"
        BY <2>2, <3>3
      <4> QED BY <1>c, <3>2, <3>3, <4>1 DEF HoldAt
    <3>4. CASE Acquire(q, "start", "hold", cmd[q].type, cmd[q].region)
      <4>1. pc'[q] = "hold" /\ \A b \in cmd[q].region : locks'[q][b] = cmd[q].type
        BY <1>0, <2>2, <3>1, <3>4, SetLockEffect DEF Acquire
      <4> QED BY <1>c, <3>2, <4>1 DEF HoldAt
    <3>5. CASE BlockFor(q, "start", cmd[q].type, cmd[q].region)
      <4>1. /\ pc'[q] = "wait"
            /\ wants'[q].type = cmd[q].type /\ wants'[q].region = cmd[q].region
        BY <1>0, <2>2, <3>5 DEF BlockFor, Typed
      <4> QED BY <1>c, <3>2, <4>1 DEF HoldAt
    <3> QED BY <2>3, <2>5, <3>3, <3>4, <3>5 DEF TFcntl
  <2>6. CASE TFcntlGranted(q)
    <3>1. /\ wants[q].type = cmd[q].type /\ wants[q].region = cmd[q].region
          /\ Prog(q) = "t_fcntl_locking"
      BY <1>0, <2>6 DEF TFcntlGranted, Granted, Goto, HoldAt
    <3>2. wants[q].type \in Types /\ wants[q].region \in SUBSET Bytes
      BY <1>0 DEF Typed, Wants
    <3>3. pc'[q] = "hold" /\ \A b \in cmd[q].region : locks'[q][b] = cmd[q].type
      BY <1>0, <2>2, <2>6, <3>1, <3>2, SetLockEffect DEF TFcntlGranted, Granted
    <3> QED BY <1>c, <3>1, <3>3 DEF HoldAt
  <2>7. CASE Prog(q) = "i_fcntl_locking"
    BY <1>c, <2>7 DEF HoldAt
  <2> QED BY <1>5, <2>4, <2>5, <2>6, <2>7
          DEF LockStep, UserStep, Open, CommandGranted, Leave, Command
<1>6. CASE p = q /\ SignalStep(p)
  BY <1>2, <1>6 DEF SignalStep, Abort, SimpleSuspend, Sigqueue, Daemon, Killfrom, LockProgs
<1>7. CASE p = q /\ Expire(p)
  BY <1>3, <1>7 DEF Expire, table
<1>8. ASSUME NEW s \in Signals, Deliver(q, s) PROVE HoldAt(q)'
  <2>1. pc'[q] = pc[q] \/ pc'[q] = "woken"
    BY <1>0, <1>8 DEF Deliver
  <2>2. ASSUME NEW how, how # "running", End({q}, how) PROVE HoldAt(q)'
    BY <1>0, <1>1, <2>2, EndEffect
  <2> QED BY <1>3, <1>8, <2>1, <2>2 DEF Deliver, Signals, table
<1> QED BY <1>4, <1>5, <1>6, <1>7, <1>8 DEF Step

-----------------------------------------------------------------------------
\* The programs start in it.
LEMMA IndInvInit == SystemInit => IndInv
<1> SUFFICES ASSUME SystemInit PROVE IndInv
  OBVIOUS
<1>i. /\ cmd \in Scenarios
      /\ \A p \in Pid : /\ pc[p] = "start" /\ fate[p] = "running" /\ pend[p] = {}
                        /\ ~armed[p] /\ \A b \in Bytes : locks[p][b] = "none"
  BY DEF SystemInit, ProcessInit
<1>1. Typed
  <2>1. \A p \in Pid : /\ cmd[p].abrt \in Dispositions /\ cmd[p].mask \subseteq Signals
                       /\ cmd[p].samask \subseteq Signals /\ cmd[p].from \in Int
    BY <1>i, ScenariosAssumption DEF Pid, Dispositions
  <2>2. disp \in [Pid -> [Signals -> Dispositions]]
    BY <2>1 DEF SystemInit, ProcessInit, Dispositions
  <2>3. /\ mask \in [Pid -> SUBSET Signals] /\ pend \in [Pid -> SUBSET Signals]
        /\ saved \in [Pid -> SUBSET Signals] /\ idx \in [Pid -> Int]
        /\ DOMAIN pc = Pid /\ DOMAIN fate = Pid
    BY <2>1 DEF SystemInit, ProcessInit, SignalInit
  <2>4. armed \in [Pid -> BOOLEAN]
    BY DEF SystemInit, ProcessInit
  <2>5. [b \in Bytes |-> "none"] \in [Bytes -> Types] /\ NoWant \in Wants
    BY DEF Types, NoWant, Wants
  <2>6. locks \in [Pid -> [Bytes -> Types]] /\ wants \in [Pid -> Wants]
    BY <2>5 DEF SystemInit, ProcessInit
  <2> QED BY <1>i, <2>2, <2>3, <2>4, <2>6 DEF Typed
<1>2. AbortInv
  BY <1>i DEF AbortInv, AbortAt
<1>3. DaemonInv
  BY <1>i DEF DaemonInv, DaemonAt
<1>4. Compatible /\ HoldInv
  BY <1>i DEF Compatible, HoldInv, HoldAt
<1> QED BY <1>1, <1>2, <1>3, <1>4 DEF IndInv

\* No step of any process, user or of the kernel leaves it.
LEMMA IndInvStep == IndInv /\ [SystemNext]_systemVars => IndInv'
<1> SUFFICES ASSUME IndInv, [SystemNext]_systemVars PROVE IndInv'
  OBVIOUS
<1>1. CASE UNCHANGED systemVars
  <2>1. UNCHANGED <<cmd, pc, fate, disp, mask, pend, armed, locks, wants, saved, idx>>
    BY <1>1 DEF systemVars, signals, table, local
  <2>2. Pid' = Pid
    BY <2>1 DEF Pid
  <2>3. Typed'
    BY <2>1, <2>2 DEF IndInv, Typed
  <2>4. AbortInv' /\ DaemonInv'
    BY <2>1, <2>2 DEF IndInv, AbortInv, AbortAt, DaemonInv, DaemonAt, Prog, Alive
  <2>5. Compatible' /\ HoldInv'
    BY <2>1, <2>2 DEF IndInv, Compatible, HoldInv, HoldAt, Prog, Alive
  <2> QED BY <2>3, <2>4, <2>5 DEF IndInv
<1>2. ASSUME NEW p \in Pid, Step(p) PROVE IndInv'
  <2>1. Typed' /\ UNCHANGED cmd
    BY <1>2, SignalTyped, LockTyped, KernelTyped DEF Step, IndInv
  <2>2. Pid' = Pid /\ \A q \in Pid : Prog(q)' = Prog(q)
    BY <2>1 DEF Pid, Prog
  <2>3. AbortInv' /\ DaemonInv'
    BY <1>2, <2>1, <2>2, AbortStep, DaemonStep DEF AbortInv, DaemonInv
  <2>4. Compatible' /\ HoldInv'
    BY <1>2, <2>1, <2>2, CompatibleStep, HoldStep DEF HoldInv
  <2> QED BY <2>1, <2>3, <2>4 DEF IndInv
<1> QED BY <1>1, <1>2 DEF SystemNext, Idle, Step

(***************************************************************************)
(* The inductive invariant holds for every set of command lines that obeys *)
(* the two assumptions of UnixProcess.                                     *)
(***************************************************************************)
THEOREM IndInvAlways == SystemSpec => []IndInv
BY IndInvInit, IndInvStep, PTL DEF SystemSpec

(***************************************************************************)
(* abort.c is terminated by SIGABRT, unless fcloseall() fails or somebody  *)
(* kills it: exit(1) on line 58 is never reached.                          *)
(***************************************************************************)
THEOREM AbortEndsBySignal == SystemSpec => []AbortBySignal
<1>1. IndInv => AbortBySignal
  BY DEF IndInv, AbortInv, AbortAt, AbortProgs, AbortBySignal
<1> QED BY <1>1, IndInvAlways, PTL

(***************************************************************************)
(* daemon_1.c: SIGALRM kills only between setitimer() and sigaction().     *)
(***************************************************************************)
THEOREM AlarmWindow == SystemSpec => []AlarmKillsOnlyEarly
<1>1. IndInv => AlarmKillsOnlyEarly
  BY DEF IndInv, DaemonInv, DaemonAt, AlarmKillsOnlyEarly
<1> QED BY <1>1, IndInvAlways, PTL

(***************************************************************************)
(* file_lock.c and t_fcntl_locking.c, once past fcntl(), have the lock     *)
(* they set, and nobody else has one that conflicts.                       *)
(***************************************************************************)
THEOREM HoldersSafe == SystemSpec => []HolderHasLock
<1>1. ASSUME IndInv PROVE HolderHasLock
  <2>0. Typed /\ Compatible /\ HoldInv
    BY <1>1 DEF IndInv
  <2>1. ASSUME NEW p \in Pid, Alive(p), pc[p] = "hold", Prog(p) = "file_lock", NEW q \in Pid
        PROVE  locks[q] = [b \in Bytes |-> IF q = p THEN "W" ELSE "none"]
    <3>1. \A b \in Bytes : locks[q][b] = IF q = p THEN "W" ELSE "none"
      BY <2>0, <2>1 DEF HoldInv, HoldAt, Compatible
    <3>2. locks[q] \in [Bytes -> Types]
      BY <2>0 DEF Typed
    <3> QED BY <3>1, <3>2
  <2>2. ASSUME NEW p \in Pid, Alive(p), pc[p] = "hold", Prog(p) = "t_fcntl_locking",
               cmd[p].op # "GETLK"
        PROVE  /\ \A b \in cmd[p].region : locks[p][b] = cmd[p].type
               /\ Conflicts(p, cmd[p].type, cmd[p].region) = {}
    <3>1. \A b \in cmd[p].region : locks[p][b] = cmd[p].type
      BY <2>0, <2>2 DEF HoldInv, HoldAt
    <3>2. cmd[p].region \subseteq Bytes
      BY <2>0, <2>2, ScenariosAssumption DEF Typed, Pid, Prog
    <3>3. ASSUME NEW q \in Pid \ {p}, NEW b \in cmd[p].region
          PROVE  /\ cmd[p].type = "W" => locks[q][b] = "none"
                 /\ cmd[p].type = "R" => locks[q][b] # "W"
      BY <2>0, <3>1, <3>2, <3>3 DEF Compatible
    <3> QED BY <3>1, <3>3 DEF Conflicts
  <2> QED BY <2>1, <2>2 DEF HolderHasLock
<1> QED BY <1>1, IndInvAlways, PTL

-----------------------------------------------------------------------------
(***************************************************************************)
(* simpleSuspend.c.  While it prepares, and again once sigsuspend() has    *)
(* returned, the three signals are blocked; in between the mask is the     *)
(* inherited one and the handlers are in place.                            *)
(***************************************************************************)
SuspendAt(p) ==
    /\ pc[p] \in {"start", "install", "pending", "suspend", "suspended", "woken", "report"}
    /\ pc[p] \in {"install", "pending", "suspend", "report"} => BlockSet \subseteq mask[p]
    /\ pc[p] \in {"suspended", "woken"} => mask[p] = saved[p]
    /\ pc[p] \in {"pending", "suspend", "suspended", "woken", "report"} =>
         \A s \in BlockSet : disp[p][s] = "handler"
    /\ fate[p] \in BlockSet => pc[p] = "start"

SuspendInv == \A p \in Pid : Prog(p) = "simpleSuspend" => SuspendAt(p)

\* A waiting process is woken by every signal that is pending for it.
WakesWaiter ==
    \A p \in Pid : Prog(p) = "simpleSuspend" =>
      /\ Alive(p) /\ pc[p] = "suspended" =>
           \A s \in (pend[p] \intersect BlockSet) \ saved[p] :
             s \in Deliverable(p) /\ disp[p][s] = "handler"
      /\ fate[p] \in BlockSet => pc[p] = "start"

\* From the first sigprocmask() on a signal leaves the pending set only by
\* ending the wait.
PendingUntilWoken ==
    \A p \in Pid :
      /\ Prog(p) = "simpleSuspend" /\ Alive(p)
      /\ pc[p] \in {"install", "pending", "suspend", "suspended"}
      => pend[p] \intersect BlockSet \subseteq pend'[p] \/ pc'[p] = "woken"

\* The program runs on, receives a signal or is killed.
LEMMA SuspendStep ==
    ASSUME Typed, NEW p \in Pid, Step(p), NEW q \in Pid, Prog(q) = "simpleSuspend",
           SuspendAt(q)
    PROVE  /\ SuspendAt(q)'
           /\ Alive(q) /\ pc[q] \in {"install", "pending", "suspend", "suspended"} =>
                pend[q] \intersect BlockSet \subseteq pend'[q] \/ pc'[q] = "woken"
<1>t. /\ DOMAIN pc = Pid /\ disp \in DispSet /\ mask \in MaskSet /\ pend \in MaskSet
      /\ saved \in MaskSet
  BY DEF Typed, DispSet, MaskSet
<1>b. BlockSet \subseteq Signals
  BY DEF BlockSet, Signals
<1>1. CASE p # q
  <2>1. /\ Untouched(q)
        /\ pend'[q] = pend[q] \/ Signalled(p, q)
        /\ fate'[q] = fate[q] \/ Killed(p, q)
    BY <1>1, Bystander
  <2>2. pend[q] \subseteq pend'[q]
    BY <2>1 DEF Signalled
  <2>3. fate'[q] = fate[q] \/ fate'[q] \notin BlockSet
    BY <2>1 DEF Killed, BlockSet
  <2> QED BY <2>1, <2>2, <2>3 DEF Untouched, SuspendAt
<1>2. CASE p = q
  <2>0. ~LockStep(q) /\ ~UserStep(q)
    BY DEF LockStep, UserStep, FileLock, TFcntl, TFcntlGranted, Open, CommandGranted,
       Leave, Command
  <2>1. ASSUME NEW how, how # "running", End({q}, how), UNCHANGED cmd
        PROVE  Alive(q) => fate'[q] = how
    BY <2>1, EndEffect
  <2>2. ASSUME NEW from, NEW to, Goto(q, from, to)
        PROVE  pc[q] = from /\ pc'[q] = to /\ Alive(q)
    BY <1>t, <2>2 DEF Goto
  <2>3. CASE Expire(q) /\ UNCHANGED local
    <3>1. UNCHANGED <<pc, fate, disp, mask, saved>>
      BY <2>3 DEF Expire, local
    <3>2. pend[q] \subseteq pend'[q]
      BY <1>t, <2>3 DEF Expire, Send, MaskSet
    <3> QED BY <3>1, <3>2 DEF SuspendAt
  <2>4. CASE \E s \in Signals : Deliver(q, s)
    <3>1. PICK s \in Signals : Deliver(q, s)
      BY <2>4
    <3>2. UNCHANGED <<cmd, disp, mask, saved>> /\ Alive(q) /\ s \in pend[q] /\ s \notin mask[q]
      BY <3>1 DEF Deliver, Deliverable, local
    <3>3. pend'[q] = pend[q] \ {s}
      BY <1>t, <3>1 DEF Deliver, MaskSet
    <3>4. CASE disp[q][s] = "DFL" /\ End({q}, s) /\ UNCHANGED pc
      <4>1. fate'[q] = s
        <5>1. s # "running"
          BY DEF Signals
        <5> QED BY <2>1, <3>2, <3>4, <5>1
      <4>2. s \in BlockSet => pc[q] = "start"
        BY <3>2, <3>4 DEF SuspendAt
      <4> QED BY <3>2, <3>3, <3>4, <4>1, <4>2 DEF SuspendAt
    <3>5. CASE disp[q][s] = "IGN" /\ UNCHANGED <<pc, fate>>
      <4>1. s \in BlockSet => pc[q] = "start"
        BY <3>2, <3>5 DEF SuspendAt
      <4> QED BY <3>2, <3>3, <3>5, <4>1 DEF SuspendAt
    <3>6. CASE disp[q][s] = "handler" /\ UNCHANGED fate
               /\ pc' = [pc EXCEPT ![q] = IF @ = "suspended" THEN "woken" ELSE @]
      <4>1. pc'[q] = IF pc[q] = "suspended" THEN "woken" ELSE pc[q]
        BY <1>t, <3>6
      <4>2. s \in BlockSet => pc[q] \notin {"install", "pending", "suspend"}
        BY <3>2 DEF SuspendAt
      <4>3. fate'[q] = "running"
        BY <3>2, <3>6 DEF Alive
      <4>4. "running" \notin BlockSet
        BY DEF BlockSet
      <4> QED BY <3>2, <3>3, <4>1, <4>2, <4>3, <4>4 DEF SuspendAt
    <3> QED BY <3>1, <3>4, <3>5, <3>6 DEF Deliver
  <2>5. CASE Block(q)
    <3>1. pc[q] = "start" /\ pc'[q] = "install" /\ UNCHANGED <<fate, pend>> /\ Alive(q)
      BY <2>2, <2>5 DEF Block
    <3>2. BlockSet \subseteq mask'[q]
      BY <1>t, <2>5 DEF Block, MaskSet
    <3>3. fate'[q] \notin BlockSet
      BY <3>1 DEF Alive, BlockSet
    <3> QED BY <3>1, <3>2, <3>3 DEF SuspendAt
  <2>6. CASE Install(q)
    <3>1. /\ pc[q] = "install" /\ pc'[q] = "pending"
          /\ UNCHANGED <<fate, mask, pend, saved>>
      BY <2>2, <2>6 DEF Install, local
    <3>2. \A s \in BlockSet : disp'[q][s] = "handler"
      BY <1>t, <1>b, <2>6 DEF Install, DispSet
    <3> QED BY <3>1, <3>2 DEF SuspendAt
  <2>7. CASE Pending(q)
    <3>1. /\ pc[q] = "pending" /\ pc'[q] = "suspend"
          /\ UNCHANGED <<fate, disp, mask, pend, saved>>
      BY <2>2, <2>7 DEF Pending, Plain, signals, local
    <3> QED BY <3>1 DEF SuspendAt
  <2>8. CASE Suspend(q)
    <3>1. /\ pc[q] = "suspend" /\ pc'[q] = "suspended"
          /\ UNCHANGED <<fate, disp, pend, saved>>
      BY <2>2, <2>8 DEF Suspend, local
    <3>2. mask'[q] = saved[q]
      BY <1>t, <2>8 DEF Suspend, MaskSet
    <3> QED BY <3>1, <3>2 DEF SuspendAt
  <2>9. CASE Resume(q)
    <3>1. /\ pc[q] = "woken" /\ pc'[q] = "report"
          /\ UNCHANGED <<fate, disp, pend, saved>>
      BY <2>2, <2>9 DEF Resume, local
    <3>2. BlockSet \subseteq mask'[q]
      BY <1>t, <2>9 DEF Resume, MaskSet
    <3> QED BY <3>1, <3>2 DEF SuspendAt
  <2>10. CASE Exit(q, "report", "exit")
    <3>1. fate'[q] = "exit" /\ pc[q] = "report" /\ UNCHANGED <<pc, disp, mask, pend, saved>>
      BY <2>1, <2>10 DEF Exit, signals, local
    <3>2. fate'[q] \notin BlockSet
      BY <3>1 DEF BlockSet
    <3> QED BY <3>1, <3>2 DEF SuspendAt
  <2> QED BY <1>2, <2>0, <2>3, <2>4, <2>5, <2>6, <2>7, <2>8, <2>9, <2>10
          DEF Step, SignalStep, Abort, SimpleSuspend, Sigqueue, Daemon, Killfrom
<1> QED BY <1>1, <1>2

(***************************************************************************)
(* simpleSuspend.c, the safety core of SuspendWakes: a signal that arrives *)
(* after the signals are blocked stays pending until the wait has begun;   *)
(* then it is deliverable, its handler is in place, and its delivery ends  *)
(* the wait.  None of the three signals kills the program once blocked.    *)
(***************************************************************************)
THEOREM NoWakeupLost == SystemSpec => []WakesWaiter /\ [][PendingUntilWoken]_systemVars
<1>1. SystemInit => SuspendInv
  BY DEF SystemInit, ProcessInit, SuspendInv, SuspendAt, BlockSet
<1>2. IndInv /\ SuspendInv /\ [SystemNext]_systemVars =>
        SuspendInv' /\ [PendingUntilWoken]_systemVars
  <2> SUFFICES ASSUME IndInv, SuspendInv, [SystemNext]_systemVars
               PROVE  SuspendInv' /\ [PendingUntilWoken]_systemVars
    OBVIOUS
  <2>1. CASE UNCHANGED systemVars
    <3>1. UNCHANGED <<cmd, pc, fate, disp, mask, pend, saved>>
      BY <2>1 DEF systemVars, signals, local
    <3>2. Pid' = Pid
      BY <3>1 DEF Pid
    <3> QED BY <2>1, <3>1, <3>2 DEF SuspendInv, SuspendAt, Prog
  <2>2. ASSUME NEW p \in Pid, Step(p) PROVE SuspendInv' /\ PendingUntilWoken
    <3>1. Typed /\ UNCHANGED cmd
      BY <2>2, SignalTyped, LockTyped, KernelTyped DEF Step, IndInv
    <3>2. Pid' = Pid /\ \A q \in Pid : Prog(q)' = Prog(q)
      BY <3>1 DEF Pid, Prog
    <3>3. SuspendInv'
      BY <2>2, <3>1, <3>2, SuspendStep DEF SuspendInv
    <3>4. PendingUntilWoken
      BY <2>2, <3>1, SuspendStep DEF SuspendInv, PendingUntilWoken
    <3> QED BY <3>3, <3>4
  <2> QED BY <2>1, <2>2 DEF SystemNext, Idle, Step
<1>3. IndInv /\ SuspendInv => WakesWaiter
  BY DEF SuspendInv, SuspendAt, WakesWaiter, Deliverable
<1> QED BY <1>1, <1>2, <1>3, IndInvAlways, PTL DEF SystemSpec

-----------------------------------------------------------------------------
(***************************************************************************)
(* killfrom.c and the record locks.  Who has ended holds no lock, and the  *)
(* pids the loop has passed belong to processes that have ended.           *)
(***************************************************************************)
DeadInv == \A q \in Pid : ~Alive(q) => \A b \in Bytes : locks[q][b] = "none"

KillAt(k) ==
    /\ idx[k] >= cmd[k].from
    /\ \A i \in Pid : cmd[k].from <= i /\ i < idx[k] => ~Alive(i)
    /\ fate[k] = "exit" => idx[k] > cmd[k].to

KillInv == \A k \in Pid : Prog(k) = "killfrom" => KillAt(k)

\* A waiter all of whose rivals the loop has passed waits for nobody.
NoDeadHolder ==
    \A p \in Pid, k \in Pid :
      /\ k # p /\ Prog(k) = "killfrom" /\ fate[k] = "exit"
      /\ Pid \ {p, k} \subseteq cmd[k].from..cmd[k].to
      => WaitsFor(p) = {}

\* A step keeps the dead as they are, and takes the locks of who dies by it.
LEMMA DeadStep ==
    ASSUME Typed, NEW p \in Pid, Step(p), UNCHANGED cmd, NEW q \in Pid,
           ~Alive(q) => \A b \in Bytes : locks[q][b] = "none"
    PROVE  /\ ~Alive(q) => fate'[q] = fate[q]
           /\ fate'[q] # "running" => \A b \in Bytes : locks'[q][b] = "none"
<1>1. CASE p # q
  <2>1. /\ fate'[q] = fate[q] \/ Killed(p, q)
        /\ locks'[q] = locks[q] \/ \A b \in Bytes : locks'[q][b] = "none"
    BY <1>1, Bystander
  <2> QED BY <2>1 DEF Killed, Alive
<1>2. CASE p = q
  <2>0. ASSUME Alive(q), UNCHANGED fate \/ \E S, how : how # "running" /\ End(S, how)
        PROVE  /\ ~Alive(q) => fate'[q] = fate[q]
               /\ fate'[q] # "running" => \A b \in Bytes : locks'[q][b] = "none"
    <3>1. ASSUME NEW S, NEW how, how # "running", End(S, how), fate'[q] # "running"
          PROVE  \A b \in Bytes : locks'[q][b] = "none"
      BY <2>0, <3>1, EndEffect DEF Alive
    <3> QED BY <2>0, <3>1 DEF Alive
  <2>1. CASE Abort(q) \/ SimpleSuspend(q) \/ Daemon(q)
    <3>1. Alive(q) /\ (UNCHANGED fate \/ \E how \in {"errExit", "gave_up", "exit"} : End({q}, how))
      BY <2>1 DEF Abort, AbortMain, Disposition, Flush, Unblock, Raise, Restore, SetMask,
         GiveUp, SimpleSuspend, Block, Install, Pending, Suspend, Resume, Daemon,
         Setsid, Setitimer, Sigaction, Plain, Exit, Goto
    <3> QED BY <2>0, <3>1
  <2>2. CASE Sigqueue(q)
    <3>1. Alive(q) /\ (UNCHANGED fate \/ \E how \in {"errExit", "exit"} : End({q}, how))
      BY <2>2 DEF Sigqueue, Exit, Goto
    <3> QED BY <2>0, <3>1
  <2>3. CASE Killfrom(q)
    <3>1. Alive(q) /\ (End(Victims(idx[q]), "KILL") \/ End({q}, "exit"))
      BY <2>3 DEF Killfrom, Exit, Goto
    <3> QED BY <2>0, <3>1
  <2>4. CASE LockStep(q) \/ UserStep(q)
    <3>1. Alive(q) /\ (UNCHANGED fate \/ \E how \in {"exit", "crash"} : End({q}, how))
      BY <2>4 DEF LockStep, UserStep, FileLock, TFcntl, TFcntlGranted, Open, CommandGranted,
         Leave, Command, Quit, Acquire, BlockFor, Granted, Goto
    <3> QED BY <2>0, <3>1
  <2>5. CASE (Expire(q) /\ UNCHANGED local) \/ \E s \in Signals : Deliver(q, s)
    <3>1. \A s \in Signals : s # "running"
      BY DEF Signals
    <3>2. Alive(q) /\ (UNCHANGED fate \/ \E how \in Signals \union {"exit"} : End({q}, how))
      BY <2>5 DEF Expire, Deliver, Deliverable
    <3> QED BY <2>0, <3>1, <3>2
  <2> QED BY <1>2, <2>1, <2>2, <2>3, <2>4, <2>5 DEF Step, SignalStep
<1> QED BY <1>1, <1>2

\* killfrom.c kills the next pid, ends, or is itself signalled or killed.
LEMMA KillStep ==
    ASSUME Typed, DeadInv, NEW p \in Pid, Step(p), UNCHANGED cmd,
           NEW q \in Pid, Prog(q) = "killfrom", KillAt(q)
    PROVE  KillAt(q)'
<1>t. /\ idx \in IdxSet /\ idx[q] \in Int /\ cmd[q].from \in Int /\ cmd[q].to \in Int
      /\ Pid' = Pid /\ Pid \subseteq Nat \ {0}
  BY ScenariosAssumption DEF Typed, IdxSet, Prog, Pid
<1>d. \A i \in Pid : ~Alive(i) => fate'[i] # "running"
  BY DeadStep DEF DeadInv, Alive
<1>1. CASE idx'[q] = idx[q] /\ (fate'[q] = fate[q] \/ fate'[q] # "exit")
  BY <1>1, <1>t, <1>d DEF KillAt, Alive
<1>2. CASE p # q
  BY <1>1, <1>2, Bystander DEF Untouched, Killed
<1>3. CASE p = q /\ Killfrom(q)
  <2>1. CASE /\ Goto(q, "start", "start") /\ End(Victims(idx[q]), "KILL")
             /\ idx' = [idx EXCEPT ![q] = @ + 1]
    <3>1. idx'[q] = idx[q] + 1
      BY <1>t, <2>1 DEF IdxSet
    <3>2. /\ fate'[q] # "exit"
          /\ \A i \in Pid : i \in Victims(idx[q]) => fate'[i] # "running"
      BY <2>1, EndEffect DEF Goto, Alive
    <3>3. ASSUME NEW i \in Pid, cmd[q].from <= i, i < idx[q] + 1 PROVE fate'[i] # "running"
      <4>1. CASE i < idx[q]
        BY <1>d, <3>3, <4>1 DEF KillAt
      <4>2. CASE i = idx[q]
        BY <1>t, <3>2, <4>2 DEF Victims
      <4> QED BY <1>t, <3>3, <4>1, <4>2
    <3> QED BY <1>t, <3>1, <3>2, <3>3 DEF KillAt, Alive
  <2>2. CASE idx[q] > cmd[q].to /\ Exit(q, "start", "exit")
    <3>1. UNCHANGED idx
      BY <2>2 DEF Exit, local
    <3> QED BY <1>t, <1>d, <2>2, <3>1 DEF KillAt, Alive
  <2> QED BY <1>3, <2>1, <2>2 DEF Killfrom
<1>4. CASE p = q /\ ((Expire(q) /\ UNCHANGED local) \/ \E s \in Signals : Deliver(q, s))
  <2>1. UNCHANGED idx
    BY <1>4 DEF Deliver, local
  <2>2. UNCHANGED fate \/ \E s \in Signals : Alive(q) /\ End({q}, s)
    BY <1>4 DEF Expire, Deliver, Deliverable
  <2>3. \A s \in Signals : s # "running" /\ s # "exit"
    BY DEF Signals
  <2>4. fate'[q] = fate[q] \/ fate'[q] # "exit"
    BY <2>2, <2>3, EndEffect
  <2> QED BY <1>1, <2>1, <2>4
<1>5. ~LockStep(q) /\ ~UserStep(q)
  BY DEF LockStep, UserStep, FileLock, TFcntl, TFcntlGranted, Open, CommandGranted,
     Leave, Command
<1> QED BY <1>2, <1>3, <1>4, <1>5
        DEF Step, SignalStep, Abort, SimpleSuspend, Sigqueue, Daemon

\* Both hold in every state.
LEMMA KillInvAlways == SystemSpec => [](DeadInv /\ KillInv)
<1>1. SystemInit => DeadInv /\ KillInv
  <2> SUFFICES ASSUME SystemInit PROVE DeadInv /\ KillInv
    OBVIOUS
  <2>1. \A p \in Pid : /\ fate[p] = "running" /\ idx[p] = cmd[p].from
                       /\ p \in Int /\ cmd[p].from \in Int
    BY ScenariosAssumption DEF SystemInit, ProcessInit, SignalInit, Pid
  <2> QED BY <2>1 DEF DeadInv, KillInv, KillAt, Alive
<1>2. IndInv /\ DeadInv /\ KillInv /\ [SystemNext]_systemVars => DeadInv' /\ KillInv'
  <2> SUFFICES ASSUME IndInv, DeadInv, KillInv, [SystemNext]_systemVars
               PROVE  DeadInv' /\ KillInv'
    OBVIOUS
  <2>1. CASE UNCHANGED systemVars
    <3>1. UNCHANGED <<cmd, fate, locks, idx>>
      BY <2>1 DEF systemVars, table, local
    <3> QED BY <3>1 DEF DeadInv, KillInv, KillAt, Alive, Prog, Pid
  <2>2. ASSUME NEW p \in Pid, Step(p) PROVE DeadInv' /\ KillInv'
    <3>1. Typed /\ UNCHANGED cmd
      BY <2>2, SignalTyped, LockTyped, KernelTyped DEF Step, IndInv
    <3>2. Pid' = Pid /\ \A q \in Pid : Prog(q)' = Prog(q)
      BY <3>1 DEF Pid, Prog
    <3>3. DeadInv'
      BY <2>2, <3>1, <3>2, DeadStep DEF DeadInv, Alive
    <3>4. KillInv'
      BY <2>2, <3>1, <3>2, KillStep DEF KillInv
    <3> QED BY <3>3, <3>4
  <2> QED BY <2>1, <2>2 DEF SystemNext, Idle, Step
<1> QED BY <1>1, <1>2, IndInvAlways, PTL DEF SystemSpec

(***************************************************************************)
(* The safety core of KillFreesWaiters: once killfrom.c has run over the   *)
(* pids of everybody else and survived, no lock is in the way of a process *)
(* that waits in F_SETLKW.  No killed holder leaves its lock behind.       *)
(***************************************************************************)
THEOREM KilledFreeLocks == SystemSpec => []NoDeadHolder
<1>1. IndInv /\ DeadInv /\ KillInv => NoDeadHolder
  <2> SUFFICES ASSUME IndInv, DeadInv, KillInv, NEW p \in Pid, NEW k \in Pid,
                      k # p, Prog(k) = "killfrom", fate[k] = "exit",
                      Pid \ {p, k} \subseteq cmd[k].from..cmd[k].to
               PROVE  WaitsFor(p) = {}
    BY DEF NoDeadHolder
  <2>1. /\ idx[k] \in Int /\ cmd[k].from \in Int /\ cmd[k].to \in Int
        /\ wants[p].region \subseteq Bytes
    BY ScenariosAssumption DEF IndInv, Typed, Prog, Pid, Wants
  <2>2. \A q \in Pid \ {p} : ~Alive(q)
    BY <2>1 DEF KillInv, KillAt, Alive
  <2> QED BY <2>1, <2>2 DEF DeadInv, WaitsFor, Conflicts
<1> QED BY <1>1, IndInvAlways, KillInvAlways, PTL

-----------------------------------------------------------------------------
(***************************************************************************)
(* killfrom.c and daemon_1.c.  A daemon past setsid() has left the group,  *)
(* unless it leads it, so that only its own pid reaches it.                *)
(***************************************************************************)
PassedBy(p, k) == Prog(k) = "killfrom" /\ p \in cmd[k].from..(idx[k] - 1)

GroupAt(p) ==
    /\ pc[p] # "start" => cmd[p].leader \/ p \notin group
    /\ fate[p] = "KILL" => pc[p] = "start" \/ cmd[p].leader \/ \E k \in Pid : PassedBy(p, k)

GroupInv == \A p \in Pid : Prog(p) = "daemon_1" => GroupAt(p)

\* Nobody joins the group, and no loop goes back.
LEMMA GroupShrinks ==
    ASSUME Typed, NEW p \in Pid, Step(p), UNCHANGED cmd
    PROVE  /\ \A q \in Pid : q \notin group => q \notin group'
           /\ \A q \in Pid, k \in Pid : PassedBy(q, k) => PassedBy(q, k)'
<1>1. group' = group \/ group' = group \ {p}
  <2>1. CASE SignalStep(p)
    BY <2>1 DEF SignalStep, Abort, AbortMain, Disposition, Flush, Unblock, Raise, Restore,
       SetMask, GiveUp, SimpleSuspend, Block, Install, Pending, Suspend, Resume, Sigqueue,
       Daemon, Setsid, Setitimer, Sigaction, Killfrom, Plain, Exit, local
  <2>2. CASE LockStep(p) \/ UserStep(p) \/ (Expire(p) /\ UNCHANGED local)
    BY <2>2 DEF LockStep, UserStep, local
  <2>3. CASE \E s \in Signals : Deliver(p, s)
    BY <2>3 DEF Deliver, local
  <2> QED BY <2>1, <2>2, <2>3 DEF Step
<1>2. ASSUME NEW q \in Pid, NEW k \in Pid, PassedBy(q, k) PROVE PassedBy(q, k)'
  <2>1. idx'[k] = idx[k] \/ idx'[k] = idx[k] + 1
    <3>1. CASE k # p
      BY <3>1, Bystander DEF Untouched
    <3>2. CASE k = p
      <4>1. UNCHANGED idx \/ idx' = [idx EXCEPT ![k] = @ + 1]
        BY <1>2, <3>2 DEF PassedBy, Step, SignalStep, LockStep, UserStep, Abort, SimpleSuspend,
           Sigqueue, Daemon, Killfrom, Exit, Expire, Deliver, local
      <4> QED BY <4>1 DEF Typed
    <3> QED BY <3>1, <3>2
  <2>2. idx[k] \in Int /\ cmd[k].from \in Int
    BY ScenariosAssumption DEF Typed, Pid
  <2> QED BY <1>2, <2>1, <2>2 DEF PassedBy, Prog
<1> QED BY <1>1, <1>2

\* daemon_1.c runs on, is signalled, or is killed in its group or by its pid.
LEMMA GroupStep ==
    ASSUME IndInv, KillInv, NEW p \in Pid, Step(p), UNCHANGED cmd,
           NEW q \in Pid, Prog(q) = "daemon_1", GroupAt(q)
    PROVE  GroupAt(q)'
<1>0. Typed /\ DaemonAt(q) /\ Pid' = Pid /\ Prog(q)' = "daemon_1"
  BY DEF IndInv, DaemonInv, Pid, Prog
<1>1. /\ q \notin group => q \notin group'
      /\ \A k \in Pid : PassedBy(q, k) => PassedBy(q, k)'
  BY <1>0, GroupShrinks
<1>2. CASE pc'[q] = pc[q] /\ (fate'[q] = fate[q] \/ fate'[q] # "KILL")
  BY <1>0, <1>1, <1>2 DEF GroupAt
<1>3. CASE p # q
  <2>1. Untouched(q) /\ (fate'[q] = fate[q] \/ Killed(p, q))
    BY <1>0, <1>3, Bystander
  <2>2. CASE Killed(p, q)
    <3>1. Prog(p) = "killfrom" /\ q \in Victims(idx[p]) /\ idx'[p] = idx[p] + 1
      BY <2>2 DEF Killed
    <3>2. CASE q \in group
      BY <1>0, <1>1, <2>1, <3>2 DEF GroupAt, Untouched
    <3>3. CASE idx[p] = q
      <4>1. cmd[p].from =< q /\ q \in Int /\ cmd[p].from \in Int
        BY <1>0, <3>1, <3>3, ScenariosAssumption DEF KillInv, KillAt, Typed, Pid
      <4>2. PassedBy(q, p)'
        BY <3>1, <3>3, <4>1 DEF PassedBy, Prog
      <4> QED BY <1>0, <1>1, <2>1, <4>2 DEF GroupAt, Untouched
    <3> QED BY <3>1, <3>2, <3>3 DEF Victims
  <2> QED BY <1>2, <2>1, <2>2 DEF Untouched
<1>4. CASE p = q
  <2>1. CASE Setsid(q)
    <3>1. pc'[q] = "setitimer" /\ fate'[q] = "running"
      BY <1>0, <2>1 DEF Setsid, Goto, Typed, Alive
    <3>2. cmd[q].leader \/ q \notin group'
      BY <2>1 DEF Setsid
    <3> QED BY <3>1, <3>2 DEF GroupAt
  <2>2. CASE Setitimer(q) \/ Sigaction(q)
    <3>1. pc[q] # "start" /\ fate'[q] = "running"
      BY <2>2 DEF Setitimer, Sigaction, Goto, Alive
    <3> QED BY <1>1, <3>1 DEF GroupAt
  <2>3. CASE Expire(q)
    BY <1>2, <2>3 DEF Expire
  <2>4. CASE \E s \in Signals : Deliver(q, s)
    <3>1. pc'[q] = pc[q]
      BY <1>0, <2>4 DEF Deliver, DaemonAt, Typed
    <3>2. \A s \in Signals : s # "running" /\ s # "KILL"
      BY DEF Signals
    <3>3. UNCHANGED fate \/ \E how \in Signals \union {"exit"} : Alive(q) /\ End({q}, how)
      BY <2>4 DEF Deliver, Deliverable
    <3>4. fate'[q] = fate[q] \/ fate'[q] # "KILL"
      BY <1>0, <3>2, <3>3, EndEffect
    <3> QED BY <1>2, <3>1, <3>4
  <2>5. ~LockStep(q) /\ ~UserStep(q)
    BY DEF LockStep, UserStep, FileLock, TFcntl, TFcntlGranted, Open, CommandGranted,
       Leave, Command
  <2> QED BY <1>4, <2>1, <2>2, <2>3, <2>4, <2>5
          DEF Step, SignalStep, Abort, SimpleSuspend, Sigqueue, Daemon, Killfrom
<1> QED BY <1>3, <1>4

(***************************************************************************)
(* A daemon that setsid() took out of its group, as it does unless the     *)
(* daemon is the leader left over from a failed fork(), is killed by       *)
(* killfrom.c only through its own pid.                                    *)
(***************************************************************************)
THEOREM DaemonLeavesGroup == SystemSpec => []GroupKillMissesDaemon
<1>1. SystemInit => GroupInv
  BY DEF SystemInit, ProcessInit, GroupInv, GroupAt
<1>2. IndInv /\ KillInv /\ GroupInv /\ [SystemNext]_systemVars => GroupInv'
  <2> SUFFICES ASSUME IndInv, KillInv, GroupInv, [SystemNext]_systemVars PROVE GroupInv'
    OBVIOUS
  <2>1. CASE UNCHANGED systemVars
    <3>1. UNCHANGED <<cmd, pc, fate, idx, group>>
      BY <2>1 DEF systemVars, local
    <3> QED BY <3>1 DEF GroupInv, GroupAt, PassedBy, Prog, Pid
  <2>2. ASSUME NEW p \in Pid, Step(p) PROVE GroupInv'
    <3>1. UNCHANGED cmd
      BY <2>2, SignalTyped, LockTyped, KernelTyped DEF Step, IndInv
    <3>2. Pid' = Pid /\ \A q \in Pid : Prog(q)' = Prog(q)
      BY <3>1 DEF Pid, Prog
    <3> QED BY <2>2, <3>1, <3>2, GroupStep DEF GroupInv
  <2> QED BY <2>1, <2>2 DEF SystemNext, Idle, Step
<1>3. GroupInv => GroupKillMissesDaemon
  BY DEF GroupInv, GroupAt, PassedBy, GroupKillMissesDaemon
<1> QED BY <1>1, <1>2, <1>3, IndInvAlways, KillInvAlways, PTL DEF SystemSpec
=============================================================================
