-------------------------- MODULE MCProcessSystem ---------------------------
(* The command lines TLC runs ProcessSystem with.                           *)
EXTENDS ProcessSystem, Sequences, TLC

\* What a process inherits, unless its command line says otherwise.
Shell == [abrt |-> "DFL", samask |-> {}, mask |-> {}, from |-> 0]
Run(name) == [prog |-> name] @@ Shell
Queue(pid, sig, num) == [prog |-> "t_sigqueue", pid |-> pid, sig |-> sig, num |-> num] @@ Shell
KillPids(a, b) == [prog |-> "killfrom", from |-> a, to |-> b] @@ Shell
Fcntl(op, type, region) ==
    [prog |-> "t_fcntl_locking", op |-> op, type |-> type, region |-> region] @@ Shell

\* simpleSuspend.c, started with SIGINT blocked or not, and two senders.
SuspendRuns ==
    {<<[mask |-> m] @@ Run("simpleSuspend"), Queue(1, s, 2), Queue(1, t, 1)>> :
        m \in {{}, {"INT"}}, s \in {"USR1", "INT", "ABRT"}, t \in {"USR2", "INT"}}

\* abort.c's main(), and abort() called in every disposition and with every
\* mask, while SIGABRT arrives from elsewhere.
AbortRuns ==
    {<<[mask |-> m] @@ Run("abort"), Queue(1, "ABRT", 2)>> : m \in {{}, {"ABRT"}}}
    \union
    {<<[abrt |-> d, samask |-> a, mask |-> m] @@ Run("abort_call"), Queue(1, "ABRT", 2)>> :
        d \in {"DFL", "IGN", "handler"}, a \in {{}, {"ABRT"}}, m \in {{}, {"ABRT"}}}

\* daemon_1.c, the child or the leader of a group that fork() failed for, while
\* killfrom.c kills its own group, a range or both.
DaemonRuns ==
    {<<[leader |-> l] @@ Run("daemon_1"), Run("simpleSuspend"), KillPids(f, e)>> :
        l \in BOOLEAN, f \in 0..2, e \in {0, 4}}

\* Lock programs in competition, and a killer with a higher or a lower pid.
LockRuns ==
    {<<Run("file_lock"), Fcntl(op, type, r), Run("i_fcntl_locking"), KillPids(f, 3)>> :
        op \in Ops, type \in Types, r \in {{0}, {0, 1}, {}}, f \in {1, 2}}
    \union
    {<<Run("i_fcntl_locking"), Run("i_fcntl_locking"), Fcntl("SETLKW", "W", {0, 1}), KillPids(1, e)>> :
        e \in {2, 3}}

AllScenarios == SuspendRuns \union AbortRuns \union DaemonRuns \union LockRuns
=============================================================================
