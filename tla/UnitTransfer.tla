---------------------------- MODULE UnitTransfer ----------------------------
(***************************************************************************)
(* What a producer/consumer program promises: the units asked for are made *)
(* one at a time, each is taken exactly once, and the program completes    *)
(* only after the last one has been taken.  A program whose start-up fails *)
(* gives up instead.                                                       *)
(***************************************************************************)
EXTENDS Naturals

VARIABLES
    units,              \* how many units are to be made and taken
    made,               \* units made so far
    held,               \* units made and not yet taken
    taken,              \* units taken so far
    outcome             \* "running", "complete" or "gave_up"

utVars == <<units, made, held, taken, outcome>>

Init ==
    /\ units \in Nat
    /\ made = 0 /\ held = 0 /\ taken = 0
    /\ outcome = "running"

Make ==
    /\ outcome = "running"
    /\ made < units
    /\ made' = made + 1
    /\ held' = held + 1
    /\ UNCHANGED <<units, taken, outcome>>

Take ==
    /\ outcome = "running"
    /\ held > 0
    /\ held' = held - 1
    /\ taken' = taken + 1
    /\ UNCHANGED <<units, made, outcome>>

Complete ==
    /\ outcome = "running"
    /\ taken = units
    /\ outcome' = "complete"
    /\ UNCHANGED <<units, made, held, taken>>

GiveUp ==
    /\ outcome = "running"
    /\ outcome' = "gave_up"
    /\ UNCHANGED <<units, made, held, taken>>

Next == Make \/ Take \/ Complete \/ GiveUp

Spec == Init /\ [][Next]_utVars
=============================================================================
