----------------------------- MODULE ThreadLife -----------------------------
(***************************************************************************)
(* What a program that joins its threads as they end promises (the comment *)
(* "alive ==> terminated ==> join" of thread_joinTerm.c): each thread ends *)
(* and is then joined, once, and the program completes when all of them    *)
(* are.  It may give up early.                                             *)
(***************************************************************************)
CONSTANT Threads

VARIABLES
    life,               \* what has become of each thread
    outcome             \* of the program

lifeVars == <<life, outcome>>

Init ==
    /\ life = [t \in Threads |-> "alive"]
    /\ outcome = "running"

Change(t, from, to) ==
    /\ outcome = "running"
    /\ life[t] = from
    /\ life' = [life EXCEPT ![t] = to]
    /\ UNCHANGED outcome

Terminate(t) == Change(t, "alive", "terminated")
Join(t)      == Change(t, "terminated", "joined")

Finish ==
    /\ outcome = "running"
    /\ \/ outcome' = "complete" /\ \A t \in Threads : life[t] = "joined"
       \/ outcome' = "gave_up"
    /\ UNCHANGED life

Next == (\E t \in Threads : Terminate(t) \/ Join(t)) \/ Finish

Spec == Init /\ [][Next]_lifeVars
=============================================================================
