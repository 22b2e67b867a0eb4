--------------------------- MODULE SignalPrograms ---------------------------
(***************************************************************************)
(* The programs that send and receive signals, as steps of a process p:    *)
(* abort.c, simpleSuspend.c, t_sigqueue.c, killfrom.c and daemon_1.c.      *)
(***************************************************************************)
EXTENDS UnixProcess

VARIABLES
    saved,              \* prevSet of simpleSuspend.c, sa.sa_mask of abort.c
    idx,                \* the loop index of t_sigqueue.c and killfrom.c
    group               \* who is in the process group they were all started in

local == <<saved, idx, group>>

SignalInit ==
    /\ saved = [p \in Pid |-> cmd[p].samask]
    /\ idx = [p \in Pid |-> cmd[p].from]
    /\ group = Pid

\* Process p goes on, and changes nothing of the kernel's.
Plain(p, from, to) ==
    /\ Goto(p, from, to)
    /\ UNCHANGED <<cmd, fate, signals, table, local>>

Exit(p, from, how) ==
    /\ Alive(p) /\ pc[p] = from
    /\ End({p}, how)
    /\ UNCHANGED <<cmd, pc, signals, local>>

-----------------------------------------------------------------------------
(* abort.c.  main() installs fa() with signal(), which puts the signal      *)
(* itself into sa_mask; "abort_call" is any other caller of abort().        *)

AbortMain(p) ==
    /\ \/ /\ Prog(p) = "abort"
          /\ disp' = [disp EXCEPT ![p]["ABRT"] = "handler"]
          /\ saved' = [saved EXCEPT ![p] = {"ABRT"}]
       \/ Prog(p) = "abort_call" /\ UNCHANGED <<disp, saved>>
    /\ Goto(p, "start", "disposition")
    /\ UNCHANGED <<cmd, fate, mask, pend, armed, table, idx, group>>

\* Lines 22-30: an ignored SIGABRT is set back to its default.
Disposition(p) ==
    /\ Goto(p, "disposition", "flush")
    /\ disp' = [disp EXCEPT ![p]["ABRT"] = IF @ = "IGN" THEN "DFL" ELSE @]
    /\ UNCHANGED <<cmd, fate, mask, pend, armed, table, local>>

\* Lines 33-40: fcloseall() with the default disposition.
Flush(p) ==
    \/ Plain(p, "flush", "unblock")
    \/ disp[p]["ABRT"] = "DFL" /\ Exit(p, "flush", "errExit")

\* An abort() that sets the mask without taking SIGABRT out of it.
UnblockNothing(p) ==
    /\ Goto(p, "unblock", "raise")
    /\ IF "ABRT" \in saved[p] THEN mask' = [mask EXCEPT ![p] = saved[p]] ELSE UNCHANGED mask
    /\ UNCHANGED <<cmd, fate, disp, pend, armed, table, local>>

\* Lines 42-48: sa_mask, not the mask of the process, decides.
Unblock(p) ==
    /\ Goto(p, "unblock", "raise")
    /\ IF "ABRT" \in saved[p]
       THEN /\ saved' = [saved EXCEPT ![p] = @ \ {"ABRT"}]
            /\ mask' = [mask EXCEPT ![p] = saved[p] \ {"ABRT"}]
       ELSE UNCHANGED <<saved, mask>>
    /\ UNCHANGED <<cmd, fate, disp, pend, armed, table, idx, group>>

\* Lines 50 and 57: kill(getpid(), SIGABRT).
Raise(p) ==
    /\ Goto(p, "raise", "restore") \/ Goto(p, "raise_again", "give_up")
    /\ Send(p, "ABRT")
    /\ UNCHANGED <<cmd, fate, disp, mask, armed, table, local>>

\* kill() returns only after an unblocked signal to the caller is delivered.
\* Lines 53-55.
Restore(p) ==
    /\ Goto(p, "restore", "set_mask")
    /\ "ABRT" \notin Deliverable(p)
    /\ disp' = [disp EXCEPT ![p]["ABRT"] = "DFL"]
    /\ UNCHANGED <<cmd, fate, mask, pend, armed, table, local>>

\* Line 56.
SetMask(p) ==
    /\ Goto(p, "set_mask", "raise_again")
    /\ mask' = [mask EXCEPT ![p] = saved[p]]
    /\ UNCHANGED <<cmd, fate, disp, pend, armed, table, local>>

\* Line 58.
GiveUp(p) == "ABRT" \notin Deliverable(p) /\ Exit(p, "give_up", "gave_up")

Abort(p) ==
    /\ Prog(p) \in {"abort", "abort_call"}
    /\ \/ AbortMain(p) \/ Disposition(p) \/ Flush(p) \/ Unblock(p)
       \/ Raise(p) \/ Restore(p) \/ SetMask(p) \/ GiveUp(p)

-----------------------------------------------------------------------------
(* simpleSuspend.c.                                                         *)

BlockSet == {"USR1", "USR2", "INT"}

Block(p) ==
    /\ Goto(p, "start", "install")
    /\ saved' = [saved EXCEPT ![p] = mask[p]]
    /\ mask' = [mask EXCEPT ![p] = @ \union BlockSet]
    /\ UNCHANGED <<cmd, fate, disp, pend, armed, table, idx, group>>

\* The three calls of sigaction(); the signals are blocked meanwhile.
Install(p) ==
    /\ Goto(p, "install", "pending")
    /\ disp' = [disp EXCEPT ![p] = [s \in Signals |-> IF s \in BlockSet THEN "handler" ELSE @[s]]]
    /\ UNCHANGED <<cmd, fate, mask, pend, armed, table, local>>

\* sleep(), and the report of sigpending().
Pending(p) == Plain(p, "pending", "suspend")

\* A program that unblocks first and waits in a second step.
SuspendInTwoSteps(p) ==
    /\ mask[p] # saved[p] \/ Deliverable(p) = {}
    /\ Goto(p, "suspend", IF mask[p] = saved[p] THEN "suspended" ELSE "suspend")
    /\ mask' = [mask EXCEPT ![p] = saved[p]]
    /\ UNCHANGED <<cmd, fate, disp, pend, armed, table, local>>

\* sigsuspend() sets the mask and waits in one step.
Suspend(p) ==
    /\ Goto(p, "suspend", "suspended")
    /\ mask' = [mask EXCEPT ![p] = saved[p]]
    /\ UNCHANGED <<cmd, fate, disp, pend, armed, table, local>>

\* sigsuspend() returns after a handler, and puts the mask back.
Resume(p) ==
    /\ Goto(p, "woken", "report")
    /\ mask' = [mask EXCEPT ![p] = saved[p] \union BlockSet]
    /\ UNCHANGED <<cmd, fate, disp, pend, armed, table, local>>

SimpleSuspend(p) ==
    /\ Prog(p) = "simpleSuspend"
    /\ \/ Block(p) \/ Install(p) \/ Pending(p) \/ Suspend(p) \/ Resume(p)
       \/ Exit(p, "report", "exit")

-----------------------------------------------------------------------------
(* t_sigqueue.c: one signal per round to process cmd.pid; a process that is *)
(* gone makes sigqueue() fail once it has been reaped.                      *)

Sigqueue(p) ==
    /\ Prog(p) = "t_sigqueue"
    /\ \/ /\ Goto(p, "start", "start") /\ idx[p] < cmd[p].num
          /\ Send(cmd[p].pid, cmd[p].sig)
          /\ idx' = [idx EXCEPT ![p] = @ + 1]
          /\ UNCHANGED <<cmd, fate, disp, mask, armed, table, saved, group>>
       \/ idx[p] < cmd[p].num /\ ~Alive(cmd[p].pid) /\ Exit(p, "start", "errExit")
       \/ idx[p] >= cmd[p].num /\ Exit(p, "start", "exit")

-----------------------------------------------------------------------------
(* daemon_1.c.  After fork() the process that goes on is the child, or, if  *)
(* fork() fails, the caller itself; p stands for it.  The caller may lead   *)
(* its process group (cmd.leader), and then setsid() fails, unchecked.      *)

\* A daemon that stays in the group it was started in.
NoSetsid(p) == Plain(p, "start", "setitimer")

Setsid(p) ==
    /\ Goto(p, "start", "setitimer")
    /\ group' = IF cmd[p].leader THEN group ELSE group \ {p}
    /\ UNCHANGED <<cmd, fate, signals, table, saved, idx>>

Setitimer(p) ==
    /\ Goto(p, "setitimer", "sigaction")
    /\ armed' = [armed EXCEPT ![p] = TRUE]
    /\ UNCHANGED <<cmd, fate, disp, mask, pend, table, local>>

\* A daemon that forgets to install its handler.
NoSigaction(p) == Plain(p, "sigaction", "loop")

Sigaction(p) ==
    /\ Goto(p, "sigaction", "loop")
    /\ disp' = [disp EXCEPT ![p]["ALRM"] = "handler"]
    /\ UNCHANGED <<cmd, fate, mask, pend, armed, table, local>>

Daemon(p) ==
    /\ Prog(p) = "daemon_1"
    /\ Setsid(p) \/ Setitimer(p) \/ Sigaction(p)

-----------------------------------------------------------------------------
\* Whom kill(i, SIGKILL) reaches, all processes being of one user: pid 0 is the
\* process group of the caller.
Victims(i) == IF i = 0 THEN group ELSE {i} \intersect Pid

\* A loop that stops before endpid.
KillfromShort(p) ==
    /\ Prog(p) = "killfrom"
    /\ \/ /\ Goto(p, "start", "start") /\ idx[p] < cmd[p].to
          /\ End(Victims(idx[p]), "KILL")
          /\ idx' = [idx EXCEPT ![p] = @ + 1]
          /\ UNCHANGED <<cmd, signals, saved, group>>
       \/ idx[p] >= cmd[p].to /\ Exit(p, "start", "exit")

\* killfrom.c: startpid..endpid in turn; the killer's own pid may be one.
Killfrom(p) ==
    /\ Prog(p) = "killfrom"
    /\ \/ /\ Goto(p, "start", "start") /\ idx[p] <= cmd[p].to
          /\ End(Victims(idx[p]), "KILL")
          /\ idx' = [idx EXCEPT ![p] = @ + 1]
          /\ UNCHANGED <<cmd, signals, saved, group>>
       \/ idx[p] > cmd[p].to /\ Exit(p, "start", "exit")

-----------------------------------------------------------------------------
\* Process p receives signal s: it dies, drops it, or runs its handler.
\* handler() of daemon_1.c exits if the log cannot be opened; the handlers of
\* abort.c and simpleSuspend.c return, and end a sigsuspend().
Deliver(p, s) ==
    /\ s \in Deliverable(p)
    /\ pend' = [pend EXCEPT ![p] = @ \ {s}]
    /\ \/ disp[p][s] = "DFL" /\ End({p}, s) /\ UNCHANGED pc
       \/ disp[p][s] = "IGN" /\ UNCHANGED <<pc, fate, table>>
       \/ /\ disp[p][s] = "handler"
          /\ pc' = [pc EXCEPT ![p] = IF @ = "suspended" THEN "woken" ELSE @]
          /\ UNCHANGED <<fate, table>>
       \/ /\ disp[p][s] = "handler" /\ Prog(p) = "daemon_1"
          /\ End({p}, "exit") /\ UNCHANGED pc
    /\ UNCHANGED <<cmd, disp, mask, armed, local>>
=============================================================================
