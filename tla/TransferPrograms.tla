-------------------------- MODULE TransferPrograms --------------------------
(***************************************************************************)
(* The programs that pass units or bytes on, each alone: the echo pair,    *)
(* the wrappers of HSocket.c between their callers, the producer and       *)
(* consumer with a condition variable, and the producers with a polling    *)
(* main().  A behaviour is one of the four; the others do not move.        *)
(***************************************************************************)
EXTENDS EchoPair, HSocket, ProducerConsumer, ProdNoCondvar

VARIABLE program        \* which of the four is run, fixed at start

transferVars == <<program, echoVars, hVars, vars, pollVars>>

\* The parameters of a program that is not run have one value.
TransferInit ==
    /\ program \in {"echo", "wrappers", "condvar", "polling"}
    /\ EchoInit /\ HInit /\ Init /\ PollInit
    /\ program # "echo" => who = "tcpClient"
    /\ program # "wrappers" => wcall = "WriteN" /\ rcall = "ReadN"
    /\ program # "polling" => argv = <<>>

EchoStep(A) ==
    program = "echo" /\ A /\ UNCHANGED <<program, hVars, vars, pollVars>>
HStep(A) ==
    program = "wrappers" /\ A /\ UNCHANGED <<program, echoVars, vars, pollVars>>
CondvarStep(A) ==
    program = "condvar" /\ A /\ UNCHANGED <<program, echoVars, hVars, pollVars>>
PollingStep(A) ==
    program = "polling" /\ A /\ UNCHANGED <<program, echoVars, hVars, vars>>

\* The program is over, or waits for what nobody will send.
Quiet == UNCHANGED transferVars

TransferNext ==
    \/ EchoStep(EchoNext) \/ HStep(HNext)
    \/ CondvarStep(Next) \/ PollingStep(PollNext)
    \/ Quiet

(***************************************************************************)
(* A process or thread that can run is run.  A user may interrupt the      *)
(* client again and again, so its read needs strong fairness: the bytes    *)
(* that are there are returned in the end.  Nobody has to type, no call    *)
(* has to fail, no wakeup has to be spurious.  The threads compete for a   *)
(* mutex, which the polling main() retakes as soon as it has released it;  *)
(* the preemptive scheduler lets one that keeps finding it free in between *)
(* get it in the end.                                                      *)
(***************************************************************************)
SocketFairness ==
    /\ WF_transferVars(EchoStep(Server)) /\ WF_transferVars(EchoStep(StopStep))
    /\ WF_transferVars(EchoStep(ClientWrite)) /\ SF_transferVars(EchoStep(ClientRead))
    /\ WF_transferVars(HStep(Writer)) /\ WF_transferVars(HStep(Reader))

CondvarFairness ==
    /\ WF_transferVars(CondvarStep(Main))
    /\ SF_transferVars(CondvarStep(Producer)) /\ SF_transferVars(CondvarStep(Consumer))

PollingFairness ==
    /\ SF_transferVars(PollingStep(PollMain))
    /\ \A t \in 1..MaxArgs :
          SF_transferVars(PollingStep(t \in Producers /\ PollProducer(t)))

TransferSpec ==
    /\ TransferInit /\ [][TransferNext]_transferVars
    /\ SocketFairness /\ CondvarFairness /\ PollingFairness

-----------------------------------------------------------------------------
(***************************************************************************)
(* The echo pair: a client that waits for its answer gets some of it or    *)
(* learns that the server is gone, unless stop passwords nobody reads have *)
(* filled both directions and its handler blocks for ever.  There is no    *)
(* third outcome.                                                          *)
(***************************************************************************)
EchoOutcome == cli = "read" ~> cli # "read" \/ BothFull

(***************************************************************************)
(* HSocket.c: the writer always ends or spins in Close(), and so does the  *)
(* reader unless nobody connected: no wrapper retries for ever except      *)
(* Close(), which never returns once close() has failed (line 122).        *)
(***************************************************************************)
TransferEnds ==
    program = "wrappers" =>
        <>( /\ writer \in Over
            /\ reader \in Over \/ (reader = "accept" /\ writer = "exit") )

(***************************************************************************)
(* producer_consumer_model.c, whose last iteration signals under the       *)
(* constants of this run: all units are consumed and main() returns        *)
(* although nine iterations of ten signal nobody.                          *)
(***************************************************************************)
CondvarAllConsumed == program = "condvar" => AllConsumed
=============================================================================
