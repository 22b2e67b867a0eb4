---------------------------- MODULE RequestReply ----------------------------
(***************************************************************************)
(* What the TCP servers of this repository promise to each client: a       *)
(* connection is read, answered, read again, and so on, until it is        *)
(* closed; an answer is sent only for something that was read, and nothing *)
(* happens on a closed connection.  A server may accept a connection and   *)
(* never serve it, and it may halt, which closes everything.               *)
(***************************************************************************)
CONSTANT Clients

VARIABLES
    phase,              \* what the server does with each client
    halted              \* has the server stopped?

rrVars == <<phase, halted>>

Init ==
    /\ phase = [c \in Clients |-> "none"]
    /\ halted = FALSE

Open    == {<<"none", "reading">>}
Receive == {<<"reading", "replying">>}
Reply   == {<<"replying", "reading">>}
Close   == {<<"reading", "closed">>, <<"replying", "closed">>}
Neglect == {<<"none", "neglected">>}

Moves == Open \union Receive \union Reply \union Close \union Neglect

Serve(c) ==
    /\ ~halted /\ ~halted'
    /\ <<phase[c], phase'[c]>> \in Moves
    /\ \A d \in Clients \ {c} : phase'[d] = phase[d]

Halt ==
    /\ ~halted /\ halted'
    /\ \A c \in Clients : phase'[c] = "closed"

Next == (\E c \in Clients : Serve(c)) \/ Halt

Spec == Init /\ [][Next]_rrVars
=============================================================================
